---- MODULE Spec2Model ----
(***************************************************************************)
(* Model of the touch-slider MIDI controller (commune-utensilpi).          *)
(*                                                                         *)
(* The main loop of code.py is a sequence of steps tracked by pc:          *)
(*   "clock"   current_time = time.monotonic()                             *)
(*   "midi"    MIDIManager.receive_messages                                *)
(*   "led"     the LED calibration trigger check                           *)
(*   "cache"   update_touch_cache_for_all_boards                           *)
(*   "sliders" update_all_sliders, one TouchSlider.update per step         *)
(*                                                                         *)
(* Slider values are Python floats that approximate multiples of 0.1;     *)
(* they are kept here as integers counting tenths (640 is 64.0), and so    *)
(* are the step sizes of the configuration.  int() of the float and of the *)
(* exact value agree on every run within the bounds below.                 *)
(***************************************************************************)
EXTENDS Integers, Sequences, FiniteSets, TLC

\* ------------------------------------------------------------------------
\* Bounds of the model
\* ------------------------------------------------------------------------
\* loop iterations explored when one board (two sliders) is connected
MaxTicks == 4
\* loop iterations explored when two boards (four sliders) are connected
TicksTwoBoards == {1, 2}
\* numbers of messages one receive_messages call drains from the MIDI input
MessageCounts == {0, 1}
\* values carried by inbound control changes
MidiValues == {0, 127}
\* values for which the assignments made for one inbound control change are
\* compared with the received value
ControlValues == {0, 1, 63, 64, 127}
\* the sliders inbound control changes are addressed to
InboundSliders == {1}
\* whether the debounce interval has passed between two updates of a
\* debouncer: a loop iteration lasts at least DEBOUNCE_INTERVAL
DebounceElapsed == {TRUE}
\* a control number no slider is configured for
UnmatchedCC == 1
\* sends the transport accepts in one update call before it fails; an
\* update call sends at most three messages, so 3 means no failure
SendBudgets == {0, 1, 2, 3}
\* seconds one loop iteration may take
LoopDurations == {1}
\* seconds from the clock read of the iteration to the clock read inside
\* activity_ping
ClockRereads == {0, 1}
\* loop iterations explored where the LED calibration is explored
MaxLedTicks == 3
\* seconds one loop iteration may take there
LedLoopDurations == {19, 20}
\* loop iterations explored when pads are held with no inbound message and
\* a transport that accepts every send
MaxHoldTicks == 7
\* evaluations of a pad's Debouncer explored
MaxDebounceCalls == 5
\* milliseconds between two evaluations
DebounceDurations == {10, 50, 100}
\* calls of activity_ping and activity_check_all_sliders explored
MaxActivityCalls == 4
\* seconds between two of those calls
ActivityDurations == {0, 1, 10}
\* sends the transport accepts in one of those calls before it fails
ActivityBudgets == {0, 1, 2}
\* calls of AllBothPressManager.update explored
MaxToggleCalls == 6
\* seconds between two calls of AllBothPressManager.update
ToggleDurations == {1, 3, 7, 30}
\* what the sliders show at a call of AllBothPressManager.update, as
\* << both_pressed, enabled >> per slider: every slider in its chord, no
\* slider in its chord, the second slider disabled with the first in its
\* chord or out of it, and every slider disabled
ToggleSliderFlags ==
  { << << TRUE, TRUE >>, << TRUE, TRUE >> >>,
    << << FALSE, TRUE >>, << TRUE, TRUE >> >>,
    << << TRUE, TRUE >>, << FALSE, FALSE >> >>,
    << << FALSE, TRUE >>, << FALSE, FALSE >> >>,
    << << TRUE, FALSE >>, << FALSE, FALSE >> >> }

\* ------------------------------------------------------------------------
\* Configuration (config.py)
\* ------------------------------------------------------------------------
None == -1

DEBOUNCE_INTERVAL == 100  \* milliseconds
LED_CALIBRATION_DELAY == 20
LED_CALIBRATION_ENABLED == TRUE

\* speed_initial, speed and accel_rate are in tenths
SLIDERS ==
  << [mpr121_address |-> 26, down_pin |-> 0, up_pin |-> 1, cc_number |-> 3,
      both_press_cc |-> 9, initial_value |-> 64, speed_initial |-> 10,
      speed |-> 10, accel_rate |-> 1, activity_channel_cc |-> 100],
     [mpr121_address |-> 26, down_pin |-> 2, up_pin |-> 3, cc_number |-> 14,
      both_press_cc |-> 15, initial_value |-> 64, speed_initial |-> 10,
      speed |-> 10, accel_rate |-> 1, activity_channel_cc |-> 101],
     [mpr121_address |-> 27, down_pin |-> 0, up_pin |-> 1, cc_number |-> 20,
      both_press_cc |-> 21, initial_value |-> 64, speed_initial |-> 10,
      speed |-> 10, accel_rate |-> 1, activity_channel_cc |-> 102],
     [mpr121_address |-> 27, down_pin |-> 2, up_pin |-> 3, cc_number |-> 22,
      both_press_cc |-> 23, initial_value |-> 64, speed_initial |-> 10,
      speed |-> 10, accel_rate |-> 1, activity_channel_cc |-> 103] >>

VARIABLES
  pc,              \* position in the main loop
  loop_count,      \* completed reads of the clock (loop iterations started)
  current_time,    \* the clock value read at the top of the iteration
  mpr121_boards,   \* addresses of the boards initialised at startup
  touch_sliders,   \* the TouchSlider objects, in creation order
  slider_index,    \* position of update_all_sliders in touch_sliders
  led,             \* the LEDCalibrationManager
  fetched,         \* per board: touched_pins reads in this iteration
  snapshot,        \* per board: the value touched_pins returned in this iteration
  ticked,          \* sliders update_all_sliders has handled in this iteration
  step_applied,    \* per slider: the step of the latest move in each direction
  midi_out,        \* control changes the transport accepted in the latest step
  update_ret,      \* return value of the latest TouchSlider.update call
  led_calibrations,        \* calls of perform_led_startup_calibration so far
  all_both_press_manager,  \* the AllBothPressManager
  toggle_ret,      \* return value of the latest AllBothPressManager.update
  toggle_out,      \* values the latest AllBothPressManager.update tried to
                   \* send on the toggle channel, each with its outcome
  toggle_emitted,  \* the last value the transport accepted on the toggle
                   \* channel (None: nothing yet)
  chord_seen_since,    \* clock value of the first of the latest unbroken run
                       \* of AllBothPressManager.update calls that saw every
                       \* enabled slider in its chord (None: the latest did not)
  activity_raised,     \* the latest activity_check_all_sliders call raised
  activity_out,        \* control changes the transport accepted in it
  activity_last_sent,  \* per slider: the last value the transport accepted on
                       \* its activity channel (None: nothing yet)
  ticks_ms,            \* the millisecond clock the debouncer reads
  pin_reader           \* a Debouncer with the time of its last bounce, and the
                       \* time since when its input has read as it reads now

vars == << pc, loop_count, current_time, mpr121_boards, touch_sliders,
           slider_index, led, fetched, snapshot, ticked, step_applied,
           midi_out, update_ret, led_calibrations, all_both_press_manager,
           toggle_ret, toggle_out, toggle_emitted, chord_seen_since,
           activity_raised,
           activity_out, activity_last_sent, ticks_ms, pin_reader >>

\* the AllBothPressManager and the outcome of its latest update
toggle_vars == << all_both_press_manager, toggle_ret, toggle_out,
                 toggle_emitted, chord_seen_since >>

\* the outcome of the latest activity_check_all_sliders call
activity_vars == << activity_raised, activity_out >>

\* the debouncer observed on its own, and its clock
pin_vars == << ticks_ms, pin_reader >>

\* ------------------------------------------------------------------------
\* Helpers
\* ------------------------------------------------------------------------
Max(a, b) == IF a >= b THEN a ELSE b
Min(a, b) == IF a <= b THEN a ELSE b

\* int(self.value): truncation of a non-negative float
IntPart(v) == v \div 10

\* float(msg.value)
ToFloat(n) == n * 10

Sliders == DOMAIN touch_sliders
Boards == { mpr121_boards[i] : i \in DOMAIN mpr121_boards }

\* reading mpr121.touched_pins raised
ReadFailed == {None}
\* mpr121.touched_pins was not read in this iteration
NoSnapshot == {None - 1}


\* ------------------------------------------------------------------------
\* adafruit_debouncer.Debouncer, as used by TouchSlider
\* ------------------------------------------------------------------------
\* Debouncer(...) built over a cache that reads False
NewDebouncer == [unstable |-> FALSE, debounced |-> FALSE]

\* Debouncer.update(): current_state is the raw value read through the
\* lambda, elapsed says whether the debounce interval has passed since the
\* last bounce
DebouncerUpdate(deb, current_state, elapsed) ==
  IF current_state # deb.unstable
  THEN [deb EXCEPT !.unstable = current_state]
  ELSE IF elapsed /\ current_state # deb.debounced
       THEN [deb EXCEPT !.debounced = current_state]
       ELSE deb

\* Debouncer(..., interval): the Debouncer with its interval and the tick
\* count of its last bounce (milliseconds), and what its input has read
\* since which evaluation
NewTimedDebouncer(interval) ==
  [ unstable |-> FALSE, debounced |-> FALSE, last_bounce |-> 0,
    interval |-> interval, raw |-> FALSE, raw_since |-> 0 ]

\* Debouncer.update() at tick count now_ticks with the input reading
\* current_state
TimedDebouncerUpdate(deb, current_state, now_ticks) ==
  LET elapsed == now_ticks - deb.last_bounce >= deb.interval
      flags == DebouncerUpdate([unstable |-> deb.unstable,
                                debounced |-> deb.debounced],
                               current_state, elapsed)
      bounced == flags.unstable # deb.unstable \/ flags.debounced # deb.debounced
  IN [ deb EXCEPT !.unstable = flags.unstable,
                  !.debounced = flags.debounced,
                  !.last_bounce = IF bounced THEN now_ticks ELSE @,
                  !.raw = current_state,
                  !.raw_since = IF current_state # deb.raw THEN now_ticks ELSE @ ]

\* ------------------------------------------------------------------------
\* TouchSlider
\* ------------------------------------------------------------------------
\* the Debouncer built without its interval argument, which then is the
\* library's default of 10 milliseconds
SliderDebouncerDefaultInterval == NewTimedDebouncer(10)

\* the Debouncer TouchSlider.__init__ builds for a pad
SliderDebouncer == NewTimedDebouncer(DEBOUNCE_INTERVAL)

\* TouchSlider.__init__
NewTouchSlider(config) ==
  [ config |-> config,
    value |-> ToFloat(config.initial_value),
    last_sent_value |-> config.initial_value,
    both_pressed |-> FALSE,
    hold_count_down |-> 0,
    hold_count_up |-> 0,
    enabled |-> TRUE,
    cached_touched_pins |-> {},
    down_debouncer |-> NewDebouncer,
    up_debouncer |-> NewDebouncer,
    activity_on |-> FALSE,
    last_activity_time |-> 0 ]

\* create_touch_sliders: one slider per configuration whose board is there
CreateTouchSliders(boards) ==
  SelectSeq(SLIDERS,
            LAMBDA c : \E i \in DOMAIN boards : boards[i] = c.mpr121_address)

\* The execution of one update call: the slider, whether an exception has
\* been raised, how many sends the transport still accepts, what it has
\* accepted, the local `changed`, and the step applied in each direction.
Frame(slider, budget) ==
  [ self |-> slider, exc |-> FALSE, budget |-> budget, out |-> << >>,
    changed |-> FALSE, step_down |-> 0, step_up |-> 0 ]

\* self.midi.send(ControlChange(cc, v)): raises once the budget is used up
Send(f, cc, v) ==
  IF f.exc THEN f
  ELSE IF f.budget = 0
       THEN [f EXCEPT !.exc = TRUE]
       ELSE [f EXCEPT !.budget = @ - 1, !.out = Append(@, << cc, v >>)]

\* TouchSlider.activity_ping
activity_ping(f, now) ==
  IF f.exc THEN f
  ELSE LET a == [f EXCEPT !.self.last_activity_time = now]
           cc == a.self.config.activity_channel_cc
       IN IF cc # None /\ ~a.self.activity_on
          THEN LET b == Send(a, cc, 127)
               IN IF b.exc THEN b ELSE [b EXCEPT !.self.activity_on = TRUE]
          ELSE a

\* The activity timeouts are imported from config, which does not define
\* them; they carry the values of the test tool, in tenths of a second.
ACTIVITY_TIMEOUT == 5
BOTH_PRESSED_TIMEOUT == 100

\* seconds as tenths of a second
Tenths(seconds) == seconds * 10

\* activity_check with a timeout that is reached rather than exceeded
activity_checkInclusive(f, now) ==
  IF f.exc THEN f
  ELSE LET cc == f.self.config.activity_channel_cc
           timeout == IF f.self.both_pressed THEN BOTH_PRESSED_TIMEOUT
                      ELSE ACTIVITY_TIMEOUT
       IN IF /\ cc # None /\ f.self.activity_on
             /\ Tenths(now - f.self.last_activity_time) >= timeout
          THEN LET a == Send(f, cc, 0)
               IN IF a.exc THEN a ELSE [a EXCEPT !.self.activity_on = FALSE]
          ELSE f

\* activity_check sending activity-off whatever activity_on is
activity_checkRepeating(f, now) ==
  IF f.exc THEN f
  ELSE LET cc == f.self.config.activity_channel_cc
           timeout == IF f.self.both_pressed THEN BOTH_PRESSED_TIMEOUT
                      ELSE ACTIVITY_TIMEOUT
       IN IF /\ cc # None
             /\ Tenths(now - f.self.last_activity_time) > timeout
          THEN LET a == Send(f, cc, 0)
               IN IF a.exc THEN a ELSE [a EXCEPT !.self.activity_on = FALSE]
          ELSE f

\* TouchSlider.activity_check; now is what its time.monotonic() returns
activity_check(f, now) ==
  IF f.exc THEN f
  ELSE LET cc == f.self.config.activity_channel_cc
           timeout == IF f.self.both_pressed THEN BOTH_PRESSED_TIMEOUT
                      ELSE ACTIVITY_TIMEOUT
       IN IF /\ cc # None /\ f.self.activity_on
             /\ Tenths(now - f.self.last_activity_time) > timeout
          THEN LET a == Send(f, cc, 0)
               IN IF a.exc THEN a ELSE [a EXCEPT !.self.activity_on = FALSE]
          ELSE f

\* the loop of activity_check_all_sliders from slider k on: the sliders
\* afterwards, whether a call raised (which ends the loop), what was sent
RECURSIVE ActivityCheckFrom(_, _, _, _, _)
ActivityCheckFrom(sliders, k, now, budget, out) ==
  IF k > Len(sliders)
  THEN [sliders |-> sliders, raised |-> FALSE, out |-> out]
  ELSE IF ~sliders[k].enabled
       THEN ActivityCheckFrom(sliders, k + 1, now, budget, out)
       ELSE LET f == activity_check(Frame(sliders[k], budget), now)
                after == [sliders EXCEPT ![k] = f.self]
            IN IF f.exc
               THEN [sliders |-> after, raised |-> TRUE, out |-> out \o f.out]
               ELSE ActivityCheckFrom(after, k + 1, now, f.budget, out \o f.out)

\* activity_check_all_sliders(touch_sliders)
activity_check_all_sliders(sliders, now, budget) ==
  ActivityCheckFrom(sliders, 1, now, budget, << >>)

\* StepSize with the acceleration counted from the second held tick
StepSizeFromSecondTick(config, hold_count) ==
  IF hold_count = 1
  THEN config.speed_initial
  ELSE config.speed + config.accel_rate * (hold_count - 1)

\* StepSize with the acceleration subtracted
StepSizeDecelerating(config, hold_count) ==
  IF hold_count = 1
  THEN config.speed_initial
  ELSE config.speed - config.accel_rate * hold_count

\* the step of the hold_count-th consecutive tick of a held direction
StepSize(config, hold_count) ==
  IF hold_count = 1
  THEN config.speed_initial
  ELSE config.speed + config.accel_rate * hold_count

\* BothPressedBranch that also clears the hold counters
BothPressedBranchResettingHolds(f, now) ==
  IF f.exc THEN f
  ELSE LET g == [f EXCEPT !.self.hold_count_down = 0, !.self.hold_count_up = 0]
       IN IF ~g.self.both_pressed /\ g.self.config.both_press_cc # None
          THEN LET a == Send(g, g.self.config.both_press_cc, 127)
                   b == IF a.exc THEN a
                        ELSE [a EXCEPT !.self.both_pressed = TRUE, !.changed = TRUE]
               IN activity_ping(b, now)
          ELSE g

\* update, both pins pressed
BothPressedBranch(f, now) ==
  IF f.exc THEN f
  ELSE IF ~f.self.both_pressed /\ f.self.config.both_press_cc # None
       THEN LET a == Send(f, f.self.config.both_press_cc, 127)
                b == IF a.exc THEN a
                     ELSE [a EXCEPT !.self.both_pressed = TRUE, !.changed = TRUE]
            IN activity_ping(b, now)
       ELSE f

\* BothReleasedBranch that waits for both pads to be released
BothReleasedBranchWhenIdle(f, now) ==
  IF f.exc THEN f
  ELSE IF /\ f.self.both_pressed /\ f.self.config.both_press_cc # None
          /\ ~f.self.down_debouncer.debounced /\ ~f.self.up_debouncer.debounced
       THEN LET a == Send(f, f.self.config.both_press_cc, 0)
                b == IF a.exc THEN a
                     ELSE [a EXCEPT !.self.both_pressed = FALSE, !.changed = TRUE]
            IN activity_ping(b, now)
       ELSE f

\* update, not both pins pressed: leaving the both-pressed state
BothReleasedBranch(f, now) ==
  IF f.exc THEN f
  ELSE IF f.self.both_pressed /\ f.self.config.both_press_cc # None
       THEN LET a == Send(f, f.self.config.both_press_cc, 0)
                b == IF a.exc THEN a
                     ELSE [a EXCEPT !.self.both_pressed = FALSE, !.changed = TRUE]
            IN activity_ping(b, now)
       ELSE f

\* MoveDown that treats a press at the lower bound as no move at all
MoveDownIdleAtBound(f, now) ==
  IF f.exc THEN f
  ELSE IF f.self.down_debouncer.debounced /\ f.self.value > 0
       THEN LET n == f.self.hold_count_down + 1
                step == StepSize(f.self.config, n)
                a == [f EXCEPT !.self.hold_count_down = n,
                               !.self.value = Max(0, @ - step),
                               !.changed = TRUE,
                               !.step_down = step]
            IN activity_ping(a, now)
       ELSE [f EXCEPT !.self.hold_count_down = 0]

\* update, the down direction
MoveDown(f, now) ==
  IF f.exc THEN f
  ELSE IF f.self.down_debouncer.debounced
       THEN LET n == f.self.hold_count_down + 1
                step == StepSize(f.self.config, n)
                a == [f EXCEPT !.self.hold_count_down = n,
                               !.self.value = Max(0, @ - step),
                               !.changed = TRUE,
                               !.step_down = step]
            IN activity_ping(a, now)
       ELSE [f EXCEPT !.self.hold_count_down = 0]

\* MoveUp without the clamp at 127
MoveUpUnclamped(f, now) ==
  IF f.exc THEN f
  ELSE IF f.self.up_debouncer.debounced
       THEN LET n == f.self.hold_count_up + 1
                step == StepSize(f.self.config, n)
                a == [f EXCEPT !.self.hold_count_up = n,
                               !.self.value = @ + step,
                               !.changed = TRUE,
                               !.step_up = step]
            IN activity_ping(a, now)
       ELSE [f EXCEPT !.self.hold_count_up = 0]

\* MoveUp that leaves hold_count_up alone when the pad is not pressed
MoveUpKeepingCount(f, now) ==
  IF f.exc THEN f
  ELSE IF f.self.up_debouncer.debounced
       THEN LET n == f.self.hold_count_up + 1
                step == StepSize(f.self.config, n)
                a == [f EXCEPT !.self.hold_count_up = n,
                               !.self.value = Min(ToFloat(127), @ + step),
                               !.changed = TRUE,
                               !.step_up = step]
            IN activity_ping(a, now)
       ELSE f

\* update, the up direction
MoveUp(f, now) ==
  IF f.exc THEN f
  ELSE IF f.self.up_debouncer.debounced
       THEN LET n == f.self.hold_count_up + 1
                step == StepSize(f.self.config, n)
                a == [f EXCEPT !.self.hold_count_up = n,
                               !.self.value = Min(ToFloat(127), @ + step),
                               !.changed = TRUE,
                               !.step_up = step]
            IN activity_ping(a, now)
       ELSE [f EXCEPT !.self.hold_count_up = 0]

\* round(v) of Python: to the nearest integer, halves to the even one
Round(v) ==
  LET q == v \div 10
      r == v % 10
  IN IF r < 5 THEN q
     ELSE IF r > 5 THEN q + 1
          ELSE IF q % 2 = 0 THEN q ELSE q + 1

\* SendValue that rounds the value instead of truncating it
SendValueRounded(f, now) ==
  IF f.exc THEN f
  ELSE IF f.changed /\ Round(f.self.value) # f.self.last_sent_value
       THEN LET new_value == Round(f.self.value)
                a == Send(f, f.self.config.cc_number, new_value)
                b == IF a.exc THEN a
                     ELSE [a EXCEPT !.self.last_sent_value = new_value]
            IN activity_ping(b, now)
       ELSE f

\* SendValue that does not record what it sent
SendValueNotRecording(f, now) ==
  IF f.exc THEN f
  ELSE IF f.changed /\ IntPart(f.self.value) # f.self.last_sent_value
       THEN LET new_value == IntPart(f.self.value)
                a == Send(f, f.self.config.cc_number, new_value)
            IN activity_ping(a, now)
       ELSE f

\* update, "Send MIDI if value changed"
SendValue(f, now) ==
  IF f.exc THEN f
  ELSE IF f.changed /\ IntPart(f.self.value) # f.self.last_sent_value
       THEN LET new_value == IntPart(f.self.value)
                a == Send(f, f.self.config.cc_number, new_value)
                b == IF a.exc THEN a
                     ELSE [a EXCEPT !.self.last_sent_value = new_value]
            IN activity_ping(b, now)
       ELSE f

\* UpdateBody that treats a chord as a press of the down pad as well
UpdateBodyMovingInChord(f, now) ==
  IF f.self.down_debouncer.debounced /\ f.self.up_debouncer.debounced
  THEN SendValue(MoveDown(BothPressedBranch(f, now), now), now)
  ELSE SendValue(MoveUp(MoveDown(BothReleasedBranch(f, now), now), now), now)

\* UpdateBody that leaves the directions for the next tick when it has just
\* released the chord
UpdateBodyReleaseOnly(f, now) ==
  IF f.self.down_debouncer.debounced /\ f.self.up_debouncer.debounced
  THEN BothPressedBranch(f, now)
  ELSE IF f.self.both_pressed
       THEN SendValue(BothReleasedBranch(f, now), now)
       ELSE SendValue(MoveUp(MoveDown(f, now), now), now)

\* the body of the try block of update, after the debouncers
UpdateBody(f, now) ==
  IF f.self.down_debouncer.debounced /\ f.self.up_debouncer.debounced
  THEN BothPressedBranch(f, now)
  ELSE SendValue(MoveUp(MoveDown(BothReleasedBranch(f, now), now), now), now)

\* the raw value a debouncer of the slider reads for a pin
ReadPin(slider, pin) == pin \in slider.cached_touched_pins

\* TouchSlider.update: the final frame; frame.changed is the return value
update(slider, down_elapsed, up_elapsed, budget, now) ==
  IF ~slider.enabled THEN Frame(slider, budget)
  ELSE LET d == DebouncerUpdate(slider.down_debouncer,
                                ReadPin(slider, slider.config.down_pin),
                                down_elapsed)
           u == DebouncerUpdate(slider.up_debouncer,
                                ReadPin(slider, slider.config.up_pin),
                                up_elapsed)
           f == Frame([slider EXCEPT !.down_debouncer = d,
                                     !.up_debouncer = u], budget)
           g == UpdateBody(f, now)
       IN IF g.exc THEN [g EXCEPT !.self.enabled = FALSE] ELSE g

\* update_touch_cache without its check of self.enabled
update_touch_cacheUnguarded(slider, read) ==
  IF read = ReadFailed
  THEN [slider EXCEPT !.enabled = FALSE]
  ELSE [slider EXCEPT !.cached_touched_pins = read]

\* TouchSlider.update_touch_cache: read is the value of mpr121.touched_pins
\* (the set of touched pins), or ReadFailed when reading it raises
update_touch_cache(slider, read) ==
  IF ~slider.enabled THEN slider
  ELSE IF read = ReadFailed
       THEN [slider EXCEPT !.enabled = FALSE]
       ELSE [slider EXCEPT !.cached_touched_pins = read]

\* ------------------------------------------------------------------------
\* update_touch_cache_for_all_boards
\* ------------------------------------------------------------------------
SlidersOnBoard(sliders, addr) ==
  { i \in DOMAIN sliders : sliders[i].config.mpr121_address = addr }

\* SlidersToRefresh without the break: every slider attached to the board
SlidersToRefreshWithoutBreak(sliders, addr) == SlidersOnBoard(sliders, addr)

\* the sliders whose update_touch_cache is called for a board: the first
\* slider attached to it ("break  # Only need to update once per board")
SlidersToRefresh(sliders, addr) ==
  { i \in SlidersOnBoard(sliders, addr) :
      \A j \in SlidersOnBoard(sliders, addr) : i <= j }

\* update_touch_cache_for_all_boards where a failed read disables every
\* slider attached to the board
update_touch_cache_for_all_boardsDisablingBoard(boards, sliders, reads) ==
  [ i \in DOMAIN sliders |->
      LET addr == sliders[i].config.mpr121_address
      IN IF i \in SlidersToRefresh(sliders, addr)
         THEN update_touch_cache(sliders[i], reads[addr])
         ELSE IF reads[addr] = ReadFailed
                 /\ \E j \in SlidersToRefresh(sliders, addr) : sliders[j].enabled
              THEN [sliders[i] EXCEPT !.enabled = FALSE]
              ELSE sliders[i] ]

\* reads[addr] is what mpr121.touched_pins of the board yields if it is read
update_touch_cache_for_all_boards(boards, sliders, reads) ==
  [ i \in DOMAIN sliders |->
      IF i \in SlidersToRefresh(sliders, sliders[i].config.mpr121_address)
      THEN update_touch_cache(sliders[i], reads[sliders[i].config.mpr121_address])
      ELSE sliders[i] ]

\* the number of times the board's touched_pins is read by the refresh
ReadsOfBoard(sliders, addr) ==
  Cardinality({ i \in SlidersToRefresh(sliders, addr) : sliders[i].enabled })

\* ------------------------------------------------------------------------
\* MIDIManager.receive_messages
\* ------------------------------------------------------------------------
\* ApplyMessage that sets the value of the slider without last_sent_value
ApplyMessageValueOnly(sliders, msg) ==
  [ i \in DOMAIN sliders |->
      IF msg.control = None THEN sliders[i]
      ELSE IF msg.control = sliders[i].config.cc_number
           THEN [sliders[i] EXCEPT !.value = ToFloat(msg.value)]
           ELSE IF msg.control = sliders[i].config.both_press_cc
                THEN [sliders[i] EXCEPT !.both_pressed = (msg.value >= 64)]
                ELSE sliders[i] ]

\* A message is [control, value]; control = None is a message that is not a
\* ControlChange.
ApplyMessage(sliders, msg) ==
  [ i \in DOMAIN sliders |->
      IF msg.control = None THEN sliders[i]
      ELSE IF msg.control = sliders[i].config.cc_number
           THEN [sliders[i] EXCEPT !.value = ToFloat(msg.value),
                                   !.last_sent_value = msg.value]
           ELSE IF msg.control = sliders[i].config.both_press_cc
                THEN [sliders[i] EXCEPT !.both_pressed = (msg.value >= 64)]
                ELSE sliders[i] ]

RECURSIVE ApplyMessages(_, _)
ApplyMessages(sliders, msgs) ==
  IF msgs = << >> THEN sliders
  ELSE ApplyMessages(ApplyMessage(sliders, Head(msgs)), Tail(msgs))

\* ------------------------------------------------------------------------
\* LEDCalibrationManager
\* ------------------------------------------------------------------------
NewLEDCalibrationManager ==
  [ first_midi_received |-> FALSE, first_midi_time |-> None,
    led_calibration_triggered |-> FALSE, led_calibration_completed |-> FALSE ]

\* on_midi_received recording the time of every message
on_midi_receivedRearming(m, now) ==
  [m EXCEPT !.first_midi_received = TRUE, !.first_midi_time = now]

on_midi_received(m, now) ==
  IF ~m.first_midi_received
  THEN [m EXCEPT !.first_midi_received = TRUE, !.first_midi_time = now]
  ELSE m

\* should_trigger_led_calibration with a strict bound on the delay
should_trigger_led_calibrationStrictly(m, now) ==
  IF ~LED_CALIBRATION_ENABLED THEN FALSE
  ELSE IF m.led_calibration_triggered \/ m.led_calibration_completed THEN FALSE
  ELSE IF ~m.first_midi_received \/ m.first_midi_time = None THEN FALSE
  ELSE now - m.first_midi_time > LED_CALIBRATION_DELAY

\* should_trigger_led_calibration without its check of the two flags
should_trigger_led_calibrationRepeating(m, now) ==
  IF ~LED_CALIBRATION_ENABLED THEN FALSE
  ELSE IF ~m.first_midi_received \/ m.first_midi_time = None THEN FALSE
  ELSE now - m.first_midi_time >= LED_CALIBRATION_DELAY

should_trigger_led_calibration(m, now) ==
  IF ~LED_CALIBRATION_ENABLED THEN FALSE
  ELSE IF m.led_calibration_triggered \/ m.led_calibration_completed THEN FALSE
  ELSE IF ~m.first_midi_received \/ m.first_midi_time = None THEN FALSE
  ELSE now - m.first_midi_time >= LED_CALIBRATION_DELAY

\* ------------------------------------------------------------------------
\* AllBothPressManager.  Its timing constants are imported from config, which
\* does not define them; they carry the values the specification gives.
\* ------------------------------------------------------------------------
ALL_BOTH_PRESS_STABLE_TIME == 3
ALL_BOTH_PRESS_MIN_DURATION == 10
ALL_BOTH_PRESS_MAX_DURATION == 30
ALL_BOTH_PRESS_COOLDOWN == 60

\* AllBothPressManager.__init__ with last_trigger_time starting at 0
NewAllBothPressManagerFromZero(toggle_enabled) ==
  [ enabled |-> toggle_enabled,
    stable_time |-> ALL_BOTH_PRESS_STABLE_TIME,
    min_duration |-> ALL_BOTH_PRESS_MIN_DURATION,
    max_duration |-> ALL_BOTH_PRESS_MAX_DURATION,
    cooldown |-> ALL_BOTH_PRESS_COOLDOWN,
    all_both_pressed |-> FALSE,
    toggle_active |-> FALSE,
    stable_start_time |-> None,
    toggle_start_time |-> None,
    last_trigger_time |-> 0 ]

\* AllBothPressManager.__init__; toggle_enabled is ALL_BOTH_PRESS_TOGGLE_ENABLED
NewAllBothPressManager(toggle_enabled) ==
  [ enabled |-> toggle_enabled,
    stable_time |-> ALL_BOTH_PRESS_STABLE_TIME,
    min_duration |-> ALL_BOTH_PRESS_MIN_DURATION,
    max_duration |-> ALL_BOTH_PRESS_MAX_DURATION,
    cooldown |-> ALL_BOTH_PRESS_COOLDOWN,
    all_both_pressed |-> FALSE,
    toggle_active |-> FALSE,
    stable_start_time |-> None,
    toggle_start_time |-> None,
    last_trigger_time |-> 0 - ALL_BOTH_PRESS_COOLDOWN ]

\* enabled_sliders = [s for s in touch_sliders if s.enabled]
EnabledSliders(sliders) == { i \in DOMAIN sliders : sliders[i].enabled }

\* all(slider.both_pressed for slider in enabled_sliders)
AllBothPressedNow(sliders) ==
  \A i \in EnabledSliders(sliders) : sliders[i].both_pressed

\* DetectStateChange that keeps the stable timer running through a release
DetectStateChangeKeepingTimer(m, all_both_pressed_now, now) ==
  IF all_both_pressed_now # m.all_both_pressed
  THEN [m EXCEPT !.all_both_pressed = all_both_pressed_now,
                 !.stable_start_time = IF all_both_pressed_now /\ @ = None
                                       THEN now ELSE @]
  ELSE m

\* the state change detection of update
DetectStateChange(m, all_both_pressed_now, now) ==
  IF all_both_pressed_now # m.all_both_pressed
  THEN [m EXCEPT !.all_both_pressed = all_both_pressed_now,
                 !.stable_start_time = IF all_both_pressed_now THEN now ELSE None]
  ELSE m

\* the trigger condition with a strict stable-time bound
ShouldTriggerStrictly(m, now) ==
  /\ m.all_both_pressed
  /\ ~m.toggle_active
  /\ m.stable_start_time # None
  /\ now - m.stable_start_time > m.stable_time
  /\ now - m.last_trigger_time >= m.cooldown

\* the trigger condition without the cooldown
ShouldTriggerWithoutCooldown(m, now) ==
  /\ m.all_both_pressed
  /\ ~m.toggle_active
  /\ m.stable_start_time # None
  /\ now - m.stable_start_time >= m.stable_time

\* the condition under which update triggers the toggle
ShouldTrigger(m, now) ==
  /\ m.all_both_pressed
  /\ ~m.toggle_active
  /\ m.stable_start_time # None
  /\ now - m.stable_start_time >= m.stable_time
  /\ now - m.last_trigger_time >= m.cooldown

\* the deactivation condition without the minimum duration
ShouldDeactivateWithoutMinimum(m, now) ==
  /\ m.toggle_active
  /\ \/ ~m.all_both_pressed
     \/ now - m.toggle_start_time >= m.max_duration

\* the condition under which update deactivates the toggle
ShouldDeactivate(m, now) ==
  /\ m.toggle_active
  /\ \/ now - m.toggle_start_time >= m.min_duration /\ ~m.all_both_pressed
     \/ now - m.toggle_start_time >= m.max_duration

\* self.midi.send(ControlChange(self.cc_number, v)) inside try/except: the
\* value and whether the transport accepted it
ToggleSend(v, accepted) == << [value |-> v, sent |-> accepted] >>

\* update reporting a change only when it deactivates
AllBothPressManager_updateSilentOn(m, sliders, now, accepted) ==
  IF ~m.enabled \/ Len(sliders) = 0 \/ EnabledSliders(sliders) = {}
  THEN [self |-> m, ret |-> FALSE, out |-> << >>]
  ELSE LET d == DetectStateChange(m, AllBothPressedNow(sliders), now)
       IN IF ShouldTrigger(d, now)
          THEN [self |-> [d EXCEPT !.toggle_active = TRUE,
                                   !.toggle_start_time = now,
                                   !.last_trigger_time = now],
                ret |-> FALSE, out |-> ToggleSend(127, accepted)]
          ELSE IF ShouldDeactivate(d, now)
               THEN [self |-> [d EXCEPT !.toggle_active = FALSE,
                                        !.toggle_start_time = None],
                     ret |-> TRUE, out |-> ToggleSend(0, accepted)]
               ELSE [self |-> d, ret |-> FALSE, out |-> << >>]

\* AllBothPressManager.update without the early return for a list with no
\* enabled slider
AllBothPressManager_updateWithoutEnabledCheck(m, sliders, now, accepted) ==
  IF ~m.enabled \/ Len(sliders) = 0
  THEN [self |-> m, ret |-> FALSE, out |-> << >>]
  ELSE LET d == DetectStateChange(m, AllBothPressedNow(sliders), now)
       IN IF ShouldTrigger(d, now)
          THEN [self |-> [d EXCEPT !.toggle_active = TRUE,
                                   !.toggle_start_time = now,
                                   !.last_trigger_time = now],
                ret |-> TRUE, out |-> ToggleSend(127, accepted)]
          ELSE IF ShouldDeactivate(d, now)
               THEN [self |-> [d EXCEPT !.toggle_active = FALSE,
                                        !.toggle_start_time = None],
                     ret |-> TRUE, out |-> ToggleSend(0, accepted)]
               ELSE [self |-> d, ret |-> FALSE, out |-> << >>]

\* AllBothPressManager.update that also clears the stable timer when it
\* deactivates
AllBothPressManager_updateResettingTimer(m, sliders, now, accepted) ==
  IF ~m.enabled \/ Len(sliders) = 0 \/ EnabledSliders(sliders) = {}
  THEN [self |-> m, ret |-> FALSE, out |-> << >>]
  ELSE LET d == DetectStateChange(m, AllBothPressedNow(sliders), now)
       IN IF ShouldTrigger(d, now)
          THEN [self |-> [d EXCEPT !.toggle_active = TRUE,
                                   !.toggle_start_time = now,
                                   !.last_trigger_time = now],
                ret |-> TRUE, out |-> ToggleSend(127, accepted)]
          ELSE IF ShouldDeactivate(d, now)
               THEN [self |-> [d EXCEPT !.toggle_active = FALSE,
                                        !.toggle_start_time = None,
                                        !.stable_start_time = None],
                     ret |-> TRUE, out |-> ToggleSend(0, accepted)]
               ELSE [self |-> d, ret |-> FALSE, out |-> << >>]

\* AllBothPressManager.update that sends 127 when it deactivates as well
AllBothPressManager_updateSameValue(m, sliders, now, accepted) ==
  IF ~m.enabled \/ Len(sliders) = 0 \/ EnabledSliders(sliders) = {}
  THEN [self |-> m, ret |-> FALSE, out |-> << >>]
  ELSE LET d == DetectStateChange(m, AllBothPressedNow(sliders), now)
       IN IF ShouldTrigger(d, now)
          THEN [self |-> [d EXCEPT !.toggle_active = TRUE,
                                   !.toggle_start_time = now,
                                   !.last_trigger_time = now],
                ret |-> TRUE, out |-> ToggleSend(127, accepted)]
          ELSE IF ShouldDeactivate(d, now)
               THEN [self |-> [d EXCEPT !.toggle_active = FALSE,
                                        !.toggle_start_time = None],
                     ret |-> TRUE, out |-> ToggleSend(127, accepted)]
               ELSE [self |-> d, ret |-> FALSE, out |-> << >>]

\* AllBothPressManager.update that keeps toggle_start_time when it
\* deactivates
AllBothPressManager_updateKeepingStart(m, sliders, now, accepted) ==
  IF ~m.enabled \/ Len(sliders) = 0 \/ EnabledSliders(sliders) = {}
  THEN [self |-> m, ret |-> FALSE, out |-> << >>]
  ELSE LET d == DetectStateChange(m, AllBothPressedNow(sliders), now)
       IN IF ShouldTrigger(d, now)
          THEN [self |-> [d EXCEPT !.toggle_active = TRUE,
                                   !.toggle_start_time = now,
                                   !.last_trigger_time = now],
                ret |-> TRUE, out |-> ToggleSend(127, accepted)]
          ELSE IF ShouldDeactivate(d, now)
               THEN [self |-> [d EXCEPT !.toggle_active = FALSE],
                     ret |-> TRUE, out |-> ToggleSend(0, accepted)]
               ELSE [self |-> d, ret |-> FALSE, out |-> << >>]

\* AllBothPressManager.update(touch_sliders, current_time): the manager
\* afterwards, the return value and the sends attempted
AllBothPressManager_update(m, sliders, now, accepted) ==
  IF ~m.enabled \/ Len(sliders) = 0 \/ EnabledSliders(sliders) = {}
  THEN [self |-> m, ret |-> FALSE, out |-> << >>]
  ELSE LET d == DetectStateChange(m, AllBothPressedNow(sliders), now)
       IN IF ShouldTrigger(d, now)
          THEN [self |-> [d EXCEPT !.toggle_active = TRUE,
                                   !.toggle_start_time = now,
                                   !.last_trigger_time = now],
                ret |-> TRUE, out |-> ToggleSend(127, accepted)]
          ELSE IF ShouldDeactivate(d, now)
               THEN [self |-> [d EXCEPT !.toggle_active = FALSE,
                                        !.toggle_start_time = None],
                     ret |-> TRUE, out |-> ToggleSend(0, accepted)]
               ELSE [self |-> d, ret |-> FALSE, out |-> << >>]

\* ------------------------------------------------------------------------
\* Inputs
\* ------------------------------------------------------------------------
\* the control numbers an inbound message may carry
InboundControls ==
  { touch_sliders[i].config.cc_number : i \in Sliders \cap InboundSliders }
    \cup { touch_sliders[i].config.both_press_cc : i \in Sliders \cap InboundSliders }
    \cup { UnmatchedCC, None }

\* control changes for a slider carry any of MidiValues; the value of a
\* message no slider matches is immaterial
InboundMessages ==
  { [control |-> c, value |-> v] :
      c \in InboundControls \ { UnmatchedCC, None }, v \in MidiValues }
    \cup { [control |-> c, value |-> 0] : c \in { UnmatchedCC, None } }

\* the sequences over S whose length is in MessageCounts
SeqsOf(S) ==
  UNION { [ 1 .. n -> S ] : n \in MessageCounts }

\* the pads of one slider
PinsOfSlider(config) == { config.down_pin, config.up_pin }

\* what the boards' touched_pins hold in one iteration: the pads of at most
\* one slider are touched at a time
PossibleTouches ==
  { [ b \in Boards |->
        IF touch_sliders[k].config.mpr121_address = b THEN pads ELSE {} ] :
      k \in Sliders, pads \in SUBSET { 0, 1, 2, 3 } }
    \cap UNION { [ Boards -> SUBSET PinsOfSlider(touch_sliders[k].config) ] :
                  k \in Sliders }

\* loop iterations explored from the current startup configuration
TickBound ==
  IF Len(mpr121_boards) = 1 THEN MaxTicks
  ELSE CHOOSE n \in TicksTwoBoards : \A m \in TicksTwoBoards : m <= n

\* ------------------------------------------------------------------------
\* The main loop (code.py)
\* ------------------------------------------------------------------------
Init ==
  /\ pc = "clock"
  /\ loop_count = 0
  /\ current_time = 0
  /\ mpr121_boards \in { << 26 >>, << 26, 27 >> }
  /\ touch_sliders =
       [ i \in DOMAIN CreateTouchSliders(mpr121_boards) |->
           NewTouchSlider(CreateTouchSliders(mpr121_boards)[i]) ]
  /\ slider_index = 1
  /\ led = NewLEDCalibrationManager
  /\ fetched = [ b \in Boards |-> 0 ]
  /\ snapshot = [ b \in Boards |-> NoSnapshot ]
  /\ ticked = {}
  /\ step_applied = [ i \in Sliders |-> [down |-> 0, up |-> 0] ]
  /\ midi_out = << >>
  /\ update_ret = FALSE
  /\ led_calibrations = 0
  /\ all_both_press_manager = NewAllBothPressManager(TRUE)
  /\ toggle_ret = FALSE
  /\ toggle_out = << >>
  /\ toggle_emitted = None
  /\ chord_seen_since = None
  /\ activity_raised = FALSE
  /\ activity_out = << >>
  /\ activity_last_sent = [ i \in Sliders |-> None ]
  /\ ticks_ms = 0
  /\ pin_reader = SliderDebouncer

\* current_time = time.monotonic()
ReadClock ==
  /\ pc = "clock"
  /\ loop_count < TickBound
  /\ \E d \in LoopDurations : current_time' = current_time + d
  /\ loop_count' = loop_count + 1
  /\ fetched' = [ b \in Boards |-> 0 ]
  /\ snapshot' = [ b \in Boards |-> NoSnapshot ]
  /\ ticked' = {}
  /\ midi_out' = << >>
  /\ update_ret' = FALSE
  /\ pc' = "midi"
  /\ UNCHANGED << mpr121_boards, touch_sliders, slider_index, led, step_applied,
                  led_calibrations, toggle_vars,
                  activity_vars, activity_last_sent, pin_vars >>

\* midi_manager.receive_messages(touch_sliders, current_time)
ReceiveMessages ==
  /\ pc = "midi"
  /\ \E msgs \in SeqsOf(InboundMessages) :
       /\ touch_sliders' = ApplyMessages(touch_sliders, msgs)
       /\ led' = IF msgs # << >> THEN on_midi_received(led, current_time) ELSE led
  /\ midi_out' = << >>
  /\ pc' = "led"
  /\ UNCHANGED << loop_count, current_time, mpr121_boards, slider_index,
                  fetched, snapshot, ticked, step_applied, update_ret,
                  led_calibrations, toggle_vars,
                  activity_vars, activity_last_sent, pin_vars >>

\* LedCalibrationCheck that leaves the acknowledgement to a later iteration
LedCalibrationCheckTriggerOnly ==
  /\ pc = "led"
  /\ led' = IF should_trigger_led_calibration(led, current_time)
            THEN [led EXCEPT !.led_calibration_triggered = TRUE]
            ELSE led
  /\ led_calibrations' = IF should_trigger_led_calibration(led, current_time)
                         THEN led_calibrations + 1 ELSE led_calibrations
  /\ pc' = "cache"
  /\ UNCHANGED << loop_count, current_time, mpr121_boards, touch_sliders,
                  slider_index, fetched, snapshot, ticked, step_applied,
                  midi_out, update_ret, toggle_vars,
                  activity_vars, activity_last_sent, pin_vars >>

\* the LED calibration check of the main loop
LedCalibrationCheck ==
  /\ pc = "led"
  /\ led' = IF should_trigger_led_calibration(led, current_time)
            THEN [led EXCEPT !.led_calibration_triggered = TRUE,
                             !.led_calibration_completed = TRUE]
            ELSE led
  /\ led_calibrations' = IF should_trigger_led_calibration(led, current_time)
                         THEN led_calibrations + 1 ELSE led_calibrations
  /\ pc' = "cache"
  /\ UNCHANGED << loop_count, current_time, mpr121_boards, touch_sliders,
                  slider_index, fetched, snapshot, ticked, step_applied,
                  midi_out, update_ret, toggle_vars,
                  activity_vars, activity_last_sent, pin_vars >>

\* update_touch_cache_for_all_boards(mpr121_boards, touch_sliders)
UpdateTouchCache ==
  /\ pc = "cache"
  /\ \E touched \in PossibleTouches, failing \in SUBSET Boards :
     LET reads == [ b \in Boards |->
                      IF b \in failing THEN ReadFailed ELSE touched[b] ]
     IN
       /\ \A b \in Boards :
            ReadsOfBoard(touch_sliders, b) = 0 => reads[b] = {}
       /\ touch_sliders' =
            update_touch_cache_for_all_boards(mpr121_boards, touch_sliders, reads)
       /\ fetched' = [ b \in Boards |-> ReadsOfBoard(touch_sliders, b) ]
       /\ snapshot' = [ b \in Boards |->
                          IF ReadsOfBoard(touch_sliders, b) = 0
                          THEN NoSnapshot ELSE reads[b] ]
  /\ slider_index' = 1
  /\ pc' = "sliders"
  /\ UNCHANGED << loop_count, current_time, mpr121_boards, led, ticked,
                  step_applied, midi_out, update_ret, led_calibrations,
                  toggle_vars, activity_vars, activity_last_sent, pin_vars >>

\* one iteration of the loop of update_all_sliders
UpdateSlider ==
  /\ pc = "sliders"
  /\ LET i == slider_index
         slider == touch_sliders[i]
     IN /\ IF slider.enabled
           THEN \E down_elapsed \in DebounceElapsed, up_elapsed \in DebounceElapsed,
                   budget \in SendBudgets, reread \in ClockRereads :
                  LET f == update(slider, down_elapsed, up_elapsed, budget,
                                  current_time + reread)
                  IN /\ touch_sliders' = [touch_sliders EXCEPT ![i] = f.self]
                     /\ midi_out' = f.out
                     /\ activity_last_sent' =
                          IF \E k \in DOMAIN f.out :
                               f.out[k] = << slider.config.activity_channel_cc, 127 >>
                          THEN [activity_last_sent EXCEPT ![i] = 127]
                          ELSE activity_last_sent
                     /\ update_ret' = f.changed
                     /\ ticked' = ticked \cup {i}
                     /\ step_applied' =
                          [step_applied EXCEPT
                             ![i].down = IF f.step_down > 0 THEN f.step_down
                                         ELSE IF f.self.hold_count_down = 0
                                              THEN 0 ELSE @,
                             ![i].up = IF f.step_up > 0 THEN f.step_up
                                       ELSE IF f.self.hold_count_up = 0
                                            THEN 0 ELSE @]
           ELSE /\ midi_out' = << >>
                /\ update_ret' = FALSE
                /\ ticked' = ticked \cup {i}
                /\ UNCHANGED << touch_sliders, step_applied, activity_last_sent >>
        /\ IF i < Len(touch_sliders)
           THEN /\ slider_index' = i + 1
                /\ pc' = "sliders"
           ELSE /\ slider_index' = 1
                /\ pc' = "clock"
  /\ UNCHANGED << loop_count, current_time, mpr121_boards, led, fetched,
                  snapshot, led_calibrations, toggle_vars, activity_vars,
                  pin_vars >>

Next ==
  \/ ReadClock
  \/ ReceiveMessages
  \/ LedCalibrationCheck
  \/ UpdateTouchCache
  \/ UpdateSlider

Spec == Init /\ [][Next]_vars

\* ------------------------------------------------------------------------
\* The main loop with one board connected and iterations long enough for
\* the LED calibration delay to pass
\* ------------------------------------------------------------------------
InitLed ==
  /\ Init
  /\ mpr121_boards = << 26 >>

\* current_time = time.monotonic()
ReadClockLed ==
  /\ pc = "clock"
  /\ loop_count < MaxLedTicks
  /\ \E d \in LedLoopDurations : current_time' = current_time + d
  /\ loop_count' = loop_count + 1
  /\ fetched' = [ b \in Boards |-> 0 ]
  /\ snapshot' = [ b \in Boards |-> NoSnapshot ]
  /\ ticked' = {}
  /\ midi_out' = << >>
  /\ update_ret' = FALSE
  /\ pc' = "midi"
  /\ UNCHANGED << mpr121_boards, touch_sliders, slider_index, led, step_applied,
                  led_calibrations, toggle_vars,
                  activity_vars, activity_last_sent, pin_vars >>

NextLed ==
  \/ ReadClockLed
  \/ ReceiveMessages
  \/ LedCalibrationCheck
  \/ UpdateTouchCache
  \/ UpdateSlider

SpecLed == InitLed /\ [][NextLed]_vars

\* some step of the loop is possible: the loop is inside an iteration, or
\* it is at the top of one and has not made all its iterations
LedLoopRuns == pc # "clock" \/ loop_count < MaxLedTicks

\* the same loop, which never stops while it can take a step (no step of an
\* iteration blocks): weak fairness of NextLed, written out with LedLoopRuns
\* for the enabledness of a step
SpecLedFair ==
  /\ InitLed
  /\ [][NextLed]_vars
  /\ ([]<>~LedLoopRuns \/ []<><<NextLed>>_vars)

\* ------------------------------------------------------------------------
\* The activity indicator: pings as TouchSlider.update makes them, inbound
\* both-press messages, and calls of activity_check_all_sliders
\* ------------------------------------------------------------------------
InitActivity ==
  /\ Init
  /\ mpr121_boards = << 26 >>

\* the last value accepted on slider i's activity channel after sends out
LastSentAfter(i, out) ==
  LET cc == touch_sliders[i].config.activity_channel_cc
      hits == SelectSeq(out, LAMBDA m : m[1] = cc)
  IN IF hits = << >> THEN activity_last_sent[i] ELSE hits[Len(hits)][2]

\* self.activity_ping() as TouchSlider.update calls it, inside its try
\* block: a send that raises ends in the except clause, which disables the
\* slider
ActivityPing ==
  /\ loop_count < MaxActivityCalls
  /\ \E i \in Sliders, d \in ActivityDurations, budget \in ActivityBudgets :
       /\ touch_sliders[i].enabled
       /\ LET f == activity_ping(Frame(touch_sliders[i], budget), current_time + d)
              after == IF f.exc THEN [f.self EXCEPT !.enabled = FALSE] ELSE f.self
          IN /\ touch_sliders' = [touch_sliders EXCEPT ![i] = after]
             /\ midi_out' = f.out
             /\ activity_last_sent' =
                  [activity_last_sent EXCEPT ![i] = LastSentAfter(i, f.out)]
       /\ current_time' = current_time + d
  /\ loop_count' = loop_count + 1
  /\ UNCHANGED << pc, mpr121_boards, slider_index, led, fetched, snapshot,
                  ticked, step_applied, update_ret, led_calibrations,
                  toggle_vars, activity_vars, pin_vars >>

\* receive_messages handing a slider a control change on its both-press
\* channel
InboundBothPress ==
  /\ \E i \in Sliders, v \in MidiValues :
       touch_sliders' =
         ApplyMessage(touch_sliders,
                      [control |-> touch_sliders[i].config.both_press_cc,
                       value |-> v])
  /\ UNCHANGED << pc, loop_count, current_time, mpr121_boards, slider_index,
                  led, fetched, snapshot, ticked, step_applied, midi_out,
                  update_ret, led_calibrations, toggle_vars, activity_vars,
                  activity_last_sent, pin_vars >>

\* activity_check_all_sliders(touch_sliders)
ActivityCheckAll ==
  /\ loop_count < MaxActivityCalls
  /\ \E d \in ActivityDurations, budget \in ActivityBudgets :
       LET r == activity_check_all_sliders(touch_sliders, current_time + d,
                                          budget)
       IN /\ touch_sliders' = r.sliders
          /\ activity_raised' = r.raised
          /\ activity_out' = r.out
          /\ activity_last_sent' =
               [ i \in Sliders |-> LastSentAfter(i, r.out) ]
          /\ current_time' = current_time + d
  /\ loop_count' = loop_count + 1
  /\ UNCHANGED << pc, mpr121_boards, slider_index, led, fetched, snapshot,
                  ticked, step_applied, midi_out, update_ret,
                  led_calibrations, toggle_vars, pin_vars >>

NextActivity ==
  \/ ActivityPing
  \/ InboundBothPress
  \/ ActivityCheckAll

SpecActivity == InitActivity /\ [][NextActivity]_vars

\* ------------------------------------------------------------------------
\* The main loop while pads are held: no inbound message, every send
\* accepted, so that long holds, chords and releases fit the bound
\* ------------------------------------------------------------------------
InitHold ==
  /\ Init
  /\ mpr121_boards = << 26 >>

\* the budget of a transport that accepts every send of an update
FullBudget == CHOOSE n \in SendBudgets : \A m \in SendBudgets : m <= n

\* current_time = time.monotonic()
ReadClockHold ==
  /\ pc = "clock"
  /\ loop_count < MaxHoldTicks
  /\ \E d \in LoopDurations : current_time' = current_time + d
  /\ loop_count' = loop_count + 1
  /\ fetched' = [ b \in Boards |-> 0 ]
  /\ snapshot' = [ b \in Boards |-> NoSnapshot ]
  /\ ticked' = {}
  /\ midi_out' = << >>
  /\ update_ret' = FALSE
  /\ pc' = "midi"
  /\ UNCHANGED << mpr121_boards, touch_sliders, slider_index, led, step_applied,
                  led_calibrations, toggle_vars,
                  activity_vars, activity_last_sent, pin_vars >>

\* midi_manager.receive_messages with no message waiting
ReceiveNoMessage ==
  /\ pc = "midi"
  /\ touch_sliders' = ApplyMessages(touch_sliders, << >>)
  /\ midi_out' = << >>
  /\ pc' = "led"
  /\ UNCHANGED << loop_count, current_time, mpr121_boards, slider_index, led,
                  fetched, snapshot, ticked, step_applied, update_ret,
                  led_calibrations, toggle_vars,
                  activity_vars, activity_last_sent, pin_vars >>

\* one iteration of the loop of update_all_sliders, every send accepted
UpdateSliderAccepted ==
  /\ pc = "sliders"
  /\ LET i == slider_index
         slider == touch_sliders[i]
     IN /\ IF slider.enabled
           THEN \E down_elapsed \in DebounceElapsed, up_elapsed \in DebounceElapsed :
                  LET f == update(slider, down_elapsed, up_elapsed, FullBudget,
                                  current_time)
                  IN /\ touch_sliders' = [touch_sliders EXCEPT ![i] = f.self]
                     /\ midi_out' = f.out
                     /\ activity_last_sent' =
                          IF \E k \in DOMAIN f.out :
                               f.out[k] = << slider.config.activity_channel_cc, 127 >>
                          THEN [activity_last_sent EXCEPT ![i] = 127]
                          ELSE activity_last_sent
                     /\ update_ret' = f.changed
                     /\ ticked' = ticked \cup {i}
                     /\ step_applied' =
                          [step_applied EXCEPT
                             ![i].down = IF f.step_down > 0 THEN f.step_down
                                         ELSE IF f.self.hold_count_down = 0
                                              THEN 0 ELSE @,
                             ![i].up = IF f.step_up > 0 THEN f.step_up
                                       ELSE IF f.self.hold_count_up = 0
                                            THEN 0 ELSE @]
           ELSE /\ midi_out' = << >>
                /\ update_ret' = FALSE
                /\ ticked' = ticked \cup {i}
                /\ UNCHANGED << touch_sliders, step_applied, activity_last_sent >>
        /\ IF i < Len(touch_sliders)
           THEN /\ slider_index' = i + 1
                /\ pc' = "sliders"
           ELSE /\ slider_index' = 1
                /\ pc' = "clock"
  /\ UNCHANGED << loop_count, current_time, mpr121_boards, led, fetched,
                  snapshot, led_calibrations, toggle_vars, activity_vars,
                  pin_vars >>

NextHold ==
  \/ ReadClockHold
  \/ ReceiveNoMessage
  \/ LedCalibrationCheck
  \/ UpdateTouchCache
  \/ UpdateSliderAccepted

SpecHold == InitHold /\ [][NextHold]_vars

\* ------------------------------------------------------------------------
\* The main loop over sliders configured without a both-press channel
\* ------------------------------------------------------------------------
\* a slider configuration with "both_press_cc": None
WithoutBothPressChannel(config) == [config EXCEPT !.both_press_cc = None]

InitOptional ==
  /\ pc = "clock"
  /\ loop_count = 0
  /\ current_time = 0
  /\ mpr121_boards = << 26 >>
  /\ touch_sliders =
       [ i \in DOMAIN CreateTouchSliders(mpr121_boards) |->
           NewTouchSlider(
             WithoutBothPressChannel(CreateTouchSliders(mpr121_boards)[i])) ]
  /\ slider_index = 1
  /\ led = NewLEDCalibrationManager
  /\ fetched = [ b \in Boards |-> 0 ]
  /\ snapshot = [ b \in Boards |-> NoSnapshot ]
  /\ ticked = {}
  /\ step_applied = [ i \in Sliders |-> [down |-> 0, up |-> 0] ]
  /\ midi_out = << >>
  /\ update_ret = FALSE
  /\ led_calibrations = 0
  /\ all_both_press_manager = NewAllBothPressManager(TRUE)
  /\ toggle_ret = FALSE
  /\ toggle_out = << >>
  /\ toggle_emitted = None
  /\ chord_seen_since = None
  /\ activity_raised = FALSE
  /\ activity_out = << >>
  /\ activity_last_sent = [ i \in Sliders |-> None ]
  /\ ticks_ms = 0
  /\ pin_reader = SliderDebouncer

SpecOptional == InitOptional /\ [][Next]_vars

\* ------------------------------------------------------------------------
\* One pad's Debouncer, evaluated once per TouchSlider.update
\* ------------------------------------------------------------------------
InitDebounce ==
  /\ Init
  /\ mpr121_boards = << 26 >>

\* self.down_debouncer.update(): touched is what the lambda reads from the
\* cached snapshot (down_pin in cached_touched_pins)
DebouncerEvaluate ==
  /\ loop_count < MaxDebounceCalls
  /\ \E d \in DebounceDurations, touched \in BOOLEAN :
       /\ ticks_ms' = ticks_ms + d
       /\ pin_reader' = TimedDebouncerUpdate(pin_reader, touched, ticks_ms + d)
  /\ loop_count' = loop_count + 1
  /\ UNCHANGED << pc, current_time, mpr121_boards, touch_sliders,
                  slider_index, led, fetched, snapshot, ticked, step_applied,
                  midi_out, update_ret, led_calibrations, toggle_vars,
                  activity_vars, activity_last_sent >>

NextDebounce == DebouncerEvaluate

SpecDebounce == InitDebounce /\ [][NextDebounce]_vars

\* ------------------------------------------------------------------------
\* The gesture toggle: AllBothPressManager.update called once per loop
\* iteration with the clock value of the iteration (as slider_cli.py does),
\* over sliders whose both_pressed and enabled flags change between calls
\* ------------------------------------------------------------------------
InitToggle ==
  /\ pc = "clock"
  /\ loop_count = 0
  /\ current_time = 0
  /\ mpr121_boards \in { << >>, << 26 >> }
  /\ touch_sliders =
       [ i \in DOMAIN CreateTouchSliders(mpr121_boards) |->
           NewTouchSlider(CreateTouchSliders(mpr121_boards)[i]) ]
  /\ slider_index = 1
  /\ led = NewLEDCalibrationManager
  /\ fetched = [ b \in Boards |-> 0 ]
  /\ snapshot = [ b \in Boards |-> NoSnapshot ]
  /\ ticked = {}
  /\ step_applied = [ i \in Sliders |-> [down |-> 0, up |-> 0] ]
  /\ midi_out = << >>
  /\ update_ret = FALSE
  /\ led_calibrations = 0
  /\ \E toggle_enabled \in BOOLEAN :
       all_both_press_manager = NewAllBothPressManager(toggle_enabled)
  /\ toggle_ret = FALSE
  /\ toggle_out = << >>
  /\ toggle_emitted = None
  /\ chord_seen_since = None
  /\ activity_raised = FALSE
  /\ activity_out = << >>
  /\ activity_last_sent = [ i \in Sliders |-> None ]
  /\ ticks_ms = 0
  /\ pin_reader = SliderDebouncer

\* the flags the sliders may show at the next call: a disabled slider stays
\* disabled
SliderFlags ==
  { f \in ToggleSliderFlags :
      \A i \in Sliders : f[i][2] => touch_sliders[i].enabled }

\* all_both_press_manager.update(touch_sliders, current_time)
ToggleUpdate ==
  /\ \E d \in ToggleDurations, flags \in SliderFlags, accepted \in BOOLEAN :
       /\ loop_count < MaxToggleCalls
       /\ loop_count' = loop_count + 1
       /\ LET sliders == [ i \in Sliders |->
                            [touch_sliders[i] EXCEPT
                               !.both_pressed = flags[i][1],
                               !.enabled = flags[i][2]] ]
              r == AllBothPressManager_update(all_both_press_manager, sliders,
                                              current_time + d, accepted)
          IN /\ current_time' = current_time + d
             /\ touch_sliders' = sliders
             /\ all_both_press_manager' = r.self
             /\ toggle_ret' = r.ret
             /\ toggle_out' = r.out
             /\ toggle_emitted' =
                  IF r.out # << >> /\ r.out[1].sent THEN r.out[1].value
                  ELSE toggle_emitted
             /\ chord_seen_since' =
                  IF ~AllBothPressedNow(sliders) THEN None
                  ELSE IF chord_seen_since = None THEN current_time + d
                       ELSE chord_seen_since
  /\ UNCHANGED << pc, mpr121_boards, slider_index, led, fetched, snapshot,
                  ticked, step_applied, midi_out, update_ret,
                  led_calibrations, activity_vars, activity_last_sent,
                  pin_vars >>

NextToggle == ToggleUpdate

SpecToggle == InitToggle /\ [][NextToggle]_vars

\* ------------------------------------------------------------------------
\* Properties
\* ------------------------------------------------------------------------
\* the step taken from this state is update_all_sliders handling slider i
TickOf(i) == pc = "sliders" /\ slider_index = i

\* slider i is the one update_all_sliders handled last
JustTicked(i) == i \in ticked /\ (i + 1) \notin ticked

\* the control changes of the latest step on slider i's value channel
ValueEmissions(i) ==
  SelectSeq(midi_out, LAMBDA m : m[1] = touch_sliders[i].config.cc_number)

BothPinsPressed(i) ==
  touch_sliders[i].down_debouncer.debounced /\ touch_sliders[i].up_debouncer.debounced

\* C1: the value of every enabled slider is within 0..127 in every reachable
\* state, whatever the pins do and whatever control changes arrive.
C1_ValueInRange ==
  \A i \in Sliders :
    touch_sliders[i].enabled =>
      /\ 0 <= touch_sliders[i].value
      /\ touch_sliders[i].value <= ToFloat(127)

\* a slider held up at the upper bound
C1_Witness ==
  \E i \in Sliders :
    /\ touch_sliders[i].enabled
    /\ i \in ticked
    /\ touch_sliders[i].hold_count_up >= 1
    /\ touch_sliders[i].value = ToFloat(127)

\* C2 as stated: no tick taken from a state in which both_pressed is true
\* changes the value or emits on the value channel (checked on the ticks of
\* a slider that was in a chord of its pads and that complete normally).
C2_AsStated ==
  [][ \A i \in Sliders :
        (TickOf(i) /\ touch_sliders[i].both_pressed /\ BothPinsPressed(i)
                   /\ touch_sliders'[i].enabled) =>
          /\ touch_sliders'[i].value = touch_sliders[i].value
          /\ ValueEmissions(i)' = << >> ]_vars

\* C2 as amended: a tick that starts and ends with both_pressed true neither
\* changes the value nor emits on the value channel (the tick that clears
\* both_pressed may move the value).
C2_ChordKeepsValue ==
  [][ \A i \in Sliders :
        (TickOf(i) /\ touch_sliders[i].both_pressed
                   /\ touch_sliders'[i].both_pressed) =>
          /\ touch_sliders'[i].value = touch_sliders[i].value
          /\ ValueEmissions(i)' = << >> ]_vars

\* a tick of a slider whose chord was already on: both pins pressed,
\* both_pressed set, and the update reported no change
C2_Witness ==
  \E i \in Sliders :
    /\ JustTicked(i)
    /\ touch_sliders[i].enabled
    /\ touch_sliders[i].both_pressed
    /\ BothPinsPressed(i)
    /\ ~update_ret

\* C3 as stated: after every tick in which both pins are pressed and that
\* leaves both_pressed true (the tick that enters the chord and the ticks
\* that stay in it) both hold counters are 0.
C3_AsStated ==
  [][ \A i \in Sliders :
        (TickOf(i) /\ touch_sliders'[i].enabled /\ BothPinsPressed(i)'
                   /\ touch_sliders'[i].both_pressed) =>
          /\ touch_sliders'[i].hold_count_down = 0
          /\ touch_sliders'[i].hold_count_up = 0 ]_vars

\* C3 as amended: a tick in which both debounced pins are pressed leaves both
\* hold counters as they were (they are frozen during the chord, not reset).
C3_ChordFreezesHolds ==
  [][ \A i \in Sliders :
        (TickOf(i) /\ BothPinsPressed(i)') =>
          /\ touch_sliders'[i].hold_count_down = touch_sliders[i].hold_count_down
          /\ touch_sliders'[i].hold_count_up = touch_sliders[i].hold_count_up ]_vars

\* a slider in the chord with a hold counter left over from before it
C3_Witness ==
  \E i \in Sliders :
    /\ JustTicked(i)
    /\ touch_sliders[i].enabled
    /\ touch_sliders[i].both_pressed
    /\ BothPinsPressed(i)
    /\ touch_sliders[i].hold_count_down > 0

\* what a tick of slider i may do on its value channel, conv being the
\* conversion of the value to the integer sent: at most one control change,
\* carrying conv(value), and only if that differs from last_sent_value, which
\* then becomes the integer sent; otherwise last_sent_value stays
EmitsOnChangeOf(conv(_), i) ==
  LET sent == ValueEmissions(i)'
      new == conv(touch_sliders'[i].value)
  IN IF sent = << >>
     THEN touch_sliders'[i].last_sent_value = touch_sliders[i].last_sent_value
     ELSE /\ sent = << << touch_sliders[i].config.cc_number, new >> >>
          /\ new # touch_sliders[i].last_sent_value
          /\ touch_sliders'[i].last_sent_value = new

HeldUpFromStart(i, k) ==
  /\ ~led.first_midi_received
  /\ touch_sliders[i].enabled
  /\ i \in ticked
  /\ loop_count = k + 1
  /\ touch_sliders[i].hold_count_up = k
  /\ touch_sliders[i].hold_count_down = 0

\* the scenario of C5 with the given values (in tenths) and emissions
ScenarioYields(values, emissions) ==
  \A i \in Sliders : \A k \in 1 .. 3 :
    HeldUpFromStart(i, k) =>
      /\ touch_sliders[i].value = values[k]
      /\ touch_sliders[i].last_sent_value = emissions[k]
      /\ JustTicked(i) =>
           ValueEmissions(i) = << << touch_sliders[i].config.cc_number, emissions[k] >> >>

\* C5 as stated: the values are 65, 66.1, 67.3 and the emissions 65, 66, 67.
C5_AsStated == ScenarioYields(<< 650, 661, 673 >>, << 65, 66, 67 >>)

\* C5 as amended: the values are 65, 66.2, 67.5 and the emissions 65, 66, 67.
C5_Scenario == ScenarioYields(<< 650, 662, 675 >>, << 65, 66, 67 >>)

\* the third tick of the scenario
C5_Witness ==
  \E i \in Sliders : HeldUpFromStart(i, 3) /\ JustTicked(i)

\* C6: while a direction stays held, the step applied by a tick is at least
\* the step applied by the tick before it; and the configured step sizes are
\* non-decreasing in the hold count for every configured slider.
C6_StepNonDecreasing ==
  [][ /\ \A k \in DOMAIN SLIDERS : \A n \in 1 .. MaxTicks :
           StepSize(SLIDERS[k], n) <= StepSize(SLIDERS[k], n + 1)
      /\ \A i \in Sliders :
           /\ touch_sliders'[i].hold_count_up = touch_sliders[i].hold_count_up + 1
                => step_applied'[i].up >= step_applied[i].up
           /\ touch_sliders'[i].hold_count_down = touch_sliders[i].hold_count_down + 1
                => step_applied'[i].down >= step_applied[i].down ]_vars

\* a direction held for three ticks, each step larger than the one before
C6_Witness ==
  \E i \in Sliders :
    /\ touch_sliders[i].hold_count_up = 3
    /\ step_applied[i].up = StepSize(touch_sliders[i].config, 3)
    /\ step_applied[i].up > StepSize(touch_sliders[i].config, 2)

BoardOf(i) == touch_sliders[i].config.mpr121_address

\* the board's touched_pins was read in this iteration and the read succeeded
HasSnapshot(b) == snapshot[b] # NoSnapshot /\ snapshot[b] # ReadFailed

\* C7 as stated: once an enabled slider has been ticked, the pin values its
\* debouncers read in that tick are those of the snapshot fetched from its
\* board in this iteration's refresh step.
C7_AsStated ==
  \A i \in Sliders :
    (i \in ticked /\ touch_sliders[i].enabled /\ HasSnapshot(BoardOf(i))) =>
      /\ touch_sliders[i].down_debouncer.unstable
           = (touch_sliders[i].config.down_pin \in snapshot[BoardOf(i)])
      /\ touch_sliders[i].up_debouncer.unstable
           = (touch_sliders[i].config.up_pin \in snapshot[BoardOf(i)])

\* C8: in every iteration each board's touched_pins is read at most once,
\* however many sliders are attached to it, and every read happens before
\* any slider of that iteration is handled by update_all_sliders.
C8_OneFetchBeforeTicks ==
  [][ \A b \in Boards :
        /\ fetched'[b] <= 1
        /\ fetched'[b] > fetched[b] => (ticked = {} /\ ticked' = {}) ]_vars

\* a board read once in an iteration in which two of its sliders were ticked
C8_Witness ==
  \E b \in Boards :
    /\ fetched[b] = 1
    /\ Cardinality(SlidersOnBoard(touch_sliders, b) \cap ticked) >= 2

\* C9: a disabled slider is never enabled again; the refresh step and the
\* slider's step of update_all_sliders leave it as it is, the refresh does
\* not read the board on its behalf, and its step emits nothing and reports
\* no change.
C9_DisabledIsInert ==
  [][ \A i \in Sliders :
        ~touch_sliders[i].enabled =>
          /\ ~touch_sliders'[i].enabled
          /\ pc = "cache" =>
               /\ touch_sliders'[i] = touch_sliders[i]
               /\ i \in SlidersToRefresh(touch_sliders, BoardOf(i))
                    => fetched'[BoardOf(i)] = 0
          /\ TickOf(i) =>
               /\ touch_sliders'[i] = touch_sliders[i]
               /\ midi_out' = << >>
               /\ ~update_ret' ]_vars

\* a slider that was disabled before this iteration: the refresh step did
\* not read its board, and its step of update_all_sliders has run
C9_Witness ==
  \E i \in Sliders :
    /\ ~touch_sliders[i].enabled
    /\ i \in SlidersToRefresh(touch_sliders, BoardOf(i))
    /\ snapshot[BoardOf(i)] = NoSnapshot
    /\ JustTicked(i)
    /\ touch_sliders[i].cached_touched_pins # {}

\* slider i apart from its cached snapshot
WithoutCache(slider) == [slider EXCEPT !.cached_touched_pins = {}]

\* C10: a refresh step disables exactly one slider per failed read, changes
\* nothing else of that slider, and leaves every other slider as it was but
\* for the cache it refreshes; enabled sliders go on being updated.
C10_FailureIsolation ==
  [][ /\ pc = "cache" =>
           LET failed == { b \in Boards : snapshot'[b] = ReadFailed }
               disabled == { i \in Sliders : touch_sliders[i].enabled
                                             /\ ~touch_sliders'[i].enabled }
           IN /\ Cardinality(disabled) = Cardinality(failed)
              /\ \A b \in failed :
                   Cardinality(disabled \cap SlidersOnBoard(touch_sliders, b)) = 1
              /\ \A i \in disabled :
                   touch_sliders'[i] = [touch_sliders[i] EXCEPT !.enabled = FALSE]
              /\ \A i \in Sliders \ disabled :
                   WithoutCache(touch_sliders'[i]) = WithoutCache(touch_sliders[i])
      /\ \A i \in Sliders :
           (TickOf(i) /\ touch_sliders[i].enabled) =>
             /\ i \in ticked'
             /\ touch_sliders'[i].down_debouncer.unstable
                  = ReadPin(touch_sliders[i], touch_sliders[i].config.down_pin)
             /\ touch_sliders'[i].up_debouncer.unstable
                  = ReadPin(touch_sliders[i], touch_sliders[i].config.up_pin) ]_vars

\* a read of one board failed in this iteration, and a slider of another
\* board has moved in it
C10_Witness ==
  \E b \in Boards : \E i \in Sliders :
    /\ snapshot[b] = ReadFailed
    /\ BoardOf(i) # b
    /\ i \in ticked
    /\ touch_sliders[i].enabled
    /\ ~BothPinsPressed(i)
    /\ touch_sliders[i].hold_count_up >= 1

\* C11 as stated: a slider tick never disables the slider, whatever the
\* transport does with its emissions, and a tick that finds both pins
\* pressed outside a chord ends with bothPressed set.
C11_AsStated ==
  [][ \A i \in Sliders :
        (TickOf(i) /\ touch_sliders[i].enabled) =>
          /\ touch_sliders'[i].enabled
          /\ (~touch_sliders[i].both_pressed /\ BothPinsPressed(i)')
               => touch_sliders'[i].both_pressed ]_vars

\* ------------------------------------------------------------------------
\* The gesture toggle (checked under SpecToggle)
\* ------------------------------------------------------------------------
\* the step activates / deactivates the toggle
Activated ==
  ~all_both_press_manager.toggle_active /\ all_both_press_manager'.toggle_active
Deactivated ==
  all_both_press_manager.toggle_active /\ ~all_both_press_manager'.toggle_active

\* the AND of the enabled sliders' both_pressed as the call of this step
\* sees it
ChordNow == \A i \in Sliders :
              touch_sliders'[i].enabled => touch_sliders'[i].both_pressed

\* stableSince as the call of this step leaves it: now if the AND has just
\* turned true, unset if it has just turned false, unchanged otherwise
StableSinceNow ==
  IF ChordNow = all_both_press_manager.all_both_pressed
  THEN all_both_press_manager.stable_start_time
  ELSE IF ChordNow THEN current_time' ELSE None

\* the activation condition of the specification
ActivationDue ==
  /\ ChordNow
  /\ ~all_both_press_manager.toggle_active
  /\ StableSinceNow # None
  /\ current_time' - StableSinceNow >= ALL_BOTH_PRESS_STABLE_TIME
  /\ current_time' - all_both_press_manager.last_trigger_time
       >= ALL_BOTH_PRESS_COOLDOWN

\* the call of this step got past its early returns
ToggleEvaluated ==
  /\ all_both_press_manager.enabled
  /\ \E i \in Sliders : touch_sliders'[i].enabled

\* what the step tried to send on the toggle channel
ToggleValuesSent == [ k \in DOMAIN toggle_out' |-> toggle_out'[k].value ]

\* C12 as stated: an update activates the toggle exactly when the
\* activation condition holds.
C12_AsStated == [][ Activated <=> ActivationDue ]_vars

\* C12: an update activates the toggle exactly when the feature is enabled,
\* some slider is enabled and the activation condition holds (the stable
\* time bound inclusive); it then records toggleSince = lastTriggerInstant =
\* now and attempts to send 127 on the toggle channel.
C12_Activation ==
  [][ /\ Activated <=> (ToggleEvaluated /\ ActivationDue)
      /\ Activated =>
           /\ all_both_press_manager'.toggle_start_time = current_time'
           /\ all_both_press_manager'.last_trigger_time = current_time'
           /\ ToggleValuesSent = << 127 >> ]_vars

\* the toggle has just been activated by a chord held for exactly the
\* stable time
C12_Witness ==
  /\ all_both_press_manager.toggle_active
  /\ all_both_press_manager.toggle_start_time = current_time
  /\ all_both_press_manager.stable_start_time
       = current_time - ALL_BOTH_PRESS_STABLE_TIME
  /\ toggle_ret

C14_AsStated ==
  [][ (all_both_press_manager.toggle_active
       /\ current_time' - all_both_press_manager.toggle_start_time
            >= ALL_BOTH_PRESS_MAX_DURATION)
        => (Deactivated /\ ToggleValuesSent = << 0 >>) ]_vars

\* C15: no update made less than cooldown after the last activation
\* activates the toggle, so two successive activations are at least
\* cooldown apart.
C15_Cooldown ==
  [][ Activated =>
        current_time' - all_both_press_manager.last_trigger_time
          >= ALL_BOTH_PRESS_COOLDOWN ]_vars

\* an update has found the chord stable with the toggle off and has not
\* activated it, the last activation being less than cooldown ago
C15_Witness ==
  /\ all_both_press_manager.enabled
  /\ \E i \in Sliders : touch_sliders[i].enabled
  /\ all_both_press_manager.all_both_pressed
  /\ ~all_both_press_manager.toggle_active
  /\ ~toggle_ret
  /\ all_both_press_manager.stable_start_time # None
  /\ current_time - all_both_press_manager.stable_start_time
       >= ALL_BOTH_PRESS_STABLE_TIME
  /\ all_both_press_manager.last_trigger_time > 0
  /\ current_time - all_both_press_manager.last_trigger_time
       < ALL_BOTH_PRESS_COOLDOWN

\* C16: while the toggle has never been activated (lastTriggerInstant is
\* not a clock value of a call), an update that finds the chord held for
\* stableTime activates it.
C16_FirstActivation ==
  [][ (/\ all_both_press_manager.last_trigger_time <= 0
       /\ ToggleEvaluated
       /\ ChordNow
       /\ StableSinceNow # None
       /\ current_time' - StableSinceNow >= ALL_BOTH_PRESS_STABLE_TIME)
        => Activated ]_vars

\* the earliest activation there can be: the chord seen at the first call,
\* one second after startup, and held for stableTime
C16_Witness ==
  /\ all_both_press_manager.toggle_active
  /\ all_both_press_manager.last_trigger_time = current_time
  /\ current_time = 1 + ALL_BOTH_PRESS_STABLE_TIME

\* C17: an update attempts at most one emission on the toggle channel, and
\* it returns true exactly when it changed toggleActive, which is exactly
\* when it attempted an emission.
C17_OneEmission ==
  [][ /\ Len(toggle_out') <= 1
      /\ toggle_ret' <=> (all_both_press_manager'.toggle_active
                            # all_both_press_manager.toggle_active)
      /\ toggle_ret' <=> (Len(toggle_out') = 1) ]_vars

\* an update has activated the toggle and returned true although the
\* transport refused the emission
C17_Witness ==
  /\ toggle_ret
  /\ all_both_press_manager.toggle_active
  /\ Len(toggle_out) = 1
  /\ ~toggle_out[1].sent

\* ------------------------------------------------------------------------
\* The LED calibration trigger (checked under SpecLed)
\* ------------------------------------------------------------------------
\* the clock values should_trigger_led_calibration is evaluated at
LedNows == 0 .. (MaxLedTicks + 1) * LED_CALIBRATION_DELAY

\* C18: for a trigger armed at t0 and neither triggered nor completed,
\* should_trigger_led_calibration(now) is true exactly for now >= t0 + delay;
\* once completed it is false for every now.
C18_TriggerTiming ==
  \A now \in LedNows :
    /\ (led.first_midi_received /\ ~led.led_calibration_triggered
        /\ ~led.led_calibration_completed)
         => (should_trigger_led_calibration(led, now)
               <=> now >= led.first_midi_time + LED_CALIBRATION_DELAY)
    /\ led.led_calibration_completed
         => ~should_trigger_led_calibration(led, now)

\* the calibration ran in the iteration whose clock value was exactly the
\* arming time plus the delay
C18_Witness ==
  /\ led.led_calibration_completed
  /\ led_calibrations = 1
  /\ pc = "cache"
  /\ current_time = led.first_midi_time + LED_CALIBRATION_DELAY

\* C19: the main loop runs the LED startup calibration at most once.
C19_AtMostOnce == led_calibrations <= 1

\* the calibration ran when the delay had just passed, and the check of the
\* next iteration, a full delay later, has been made
C19_Witness ==
  /\ led_calibrations = 1
  /\ pc = "cache"
  /\ current_time = led.first_midi_time + 2 * LED_CALIBRATION_DELAY

\* C20: none of the three flags goes back to false, completed implies
\* triggered implies armed, and the arming time is set when the trigger is
\* armed and never changes afterwards.
C20_Monotonic ==
  [][ /\ led.first_midi_received =>
           (led'.first_midi_received
            /\ led'.first_midi_time = led.first_midi_time)
      /\ led.led_calibration_triggered => led'.led_calibration_triggered
      /\ led.led_calibration_completed => led'.led_calibration_completed
      /\ led'.led_calibration_completed => led'.led_calibration_triggered
      /\ led'.led_calibration_triggered => led'.first_midi_received
      /\ led'.first_midi_received <=> (led'.first_midi_time # None) ]_vars

\* a control change arrived in the first iteration and another one in the
\* second (one set slider 1's value, the other its both_pressed, which no
\* touch can have set yet), and the arming time is that of the first
C20_Witness ==
  /\ loop_count = 2
  /\ pc = "led"
  /\ touch_sliders[1].value = 0
  /\ touch_sliders[1].both_pressed
  /\ led.first_midi_received
  /\ led.first_midi_time < current_time

\* ------------------------------------------------------------------------
\* Claims about the activity indicator and the order of an iteration
\* ------------------------------------------------------------------------
\* C21: no exception propagates out of a public operation, activity_check
\* included: a call of activity_check_all_sliders never ends with a raise.
C21_AsStated == ~activity_raised

\* C22: in every iteration the board refresh and the slider updates run
\* before the trigger check: when the trigger check is about to run, every
\* board has been read in this iteration and every enabled slider updated.
C22_AsStated ==
  pc = "led" =>
    /\ \A b \in Boards : snapshot[b] # NoSnapshot
    /\ \A i \in Sliders : touch_sliders[i].enabled => i \in ticked

\* the timeout activity_check applies to a slider
TimeoutOf(slider) ==
  IF slider.both_pressed THEN BOTH_PRESSED_TIMEOUT ELSE ACTIVITY_TIMEOUT

\* slider i has had no activity for longer than its timeout at time now
TimedOut(i, now) ==
  Tenths(now - touch_sliders[i].last_activity_time) > TimeoutOf(touch_sliders[i])

\* C23: the running loop switches the activity indicator off after the
\* timeout: an iteration that begins with a slider's timeout already
\* exceeded, and in which the slider does not change, ends with that
\* slider's indicator off.
C23_AsStated ==
  \A i \in Sliders :
    (pc = "clock" /\ touch_sliders[i].activity_on) => ~TimedOut(i, current_time)

\* C24: the debounced value of a pad changes in an evaluation exactly when
\* the input read differs from it and has read the same at every evaluation
\* of the last DEBOUNCE_INTERVAL: an input that changes more often never
\* changes it, one held for the interval shows at the next evaluation.
C24_Debounce ==
  [][ pin_reader'.debounced # pin_reader.debounced
        <=> /\ pin_reader'.raw # pin_reader.debounced
            /\ ticks_ms' - pin_reader'.raw_since >= DEBOUNCE_INTERVAL ]_vars

\* the pad has read touched from an evaluation on, and exactly one interval
\* later the debounced value shows it
C24_Witness ==
  /\ pin_reader.debounced
  /\ pin_reader.raw
  /\ pin_reader.raw_since > 0
  /\ ticks_ms - pin_reader.raw_since = DEBOUNCE_INTERVAL
  /\ pin_reader.last_bounce = ticks_ms

\* C25: a tick that finds both debounced pins pressed while both_pressed is
\* false sets both_pressed and returns changed = True, whether or not the
\* slider has a both-press channel.
C25_AsStated ==
  [][ \A i \in Sliders :
        (TickOf(i) /\ touch_sliders'[i].enabled
           /\ ~touch_sliders[i].both_pressed /\ BothPinsPressed(i)')
          => (touch_sliders'[i].both_pressed /\ update_ret') ]_vars

\* C26: a tick that completes, starts with both_pressed true and finds the
\* pins no longer both pressed clears both_pressed, emits both-press-off
\* (0) before anything else and returns changed = True, and in the same
\* tick counts and applies each direction: a pad still held moves the value
\* by its step, and a value control change comes after the both-press-off.
C26_Release ==
  [][ \A i \in Sliders :
        LET s == touch_sliders[i]
            t == touch_sliders'[i]
        IN (TickOf(i) /\ s.both_pressed /\ ~BothPinsPressed(i)' /\ t.enabled)
             => /\ ~t.both_pressed
                /\ midi_out' # << >>
                /\ Head(midi_out') = << s.config.both_press_cc, 0 >>
                /\ update_ret'
                /\ t.hold_count_down =
                     IF t.down_debouncer.debounced THEN s.hold_count_down + 1 ELSE 0
                /\ t.hold_count_up =
                     IF t.up_debouncer.debounced THEN s.hold_count_up + 1 ELSE 0
                /\ t.down_debouncer.debounced =>
                     t.value = Max(0, s.value - StepSize(s.config, t.hold_count_down))
                /\ t.up_debouncer.debounced =>
                     t.value = Min(ToFloat(127), s.value + StepSize(s.config, t.hold_count_up))
                /\ (~t.down_debouncer.debounced /\ ~t.up_debouncer.debounced) =>
                     t.value = s.value ]_vars

\* slider 1 has just left a chord with its down pad still held: the tick
\* sent both-press-off first and the moved value after it
C26_Witness ==
  /\ JustTicked(1)
  /\ touch_sliders[1].enabled
  /\ ~touch_sliders[1].both_pressed
  /\ touch_sliders[1].down_debouncer.debounced
  /\ touch_sliders[1].hold_count_down >= 1
  /\ midi_out # << >>
  /\ Head(midi_out) = << touch_sliders[1].config.both_press_cc, 0 >>
  /\ \E k \in 2 .. Len(midi_out) :
       midi_out[k] = << touch_sliders[1].config.cc_number,
                        IntPart(touch_sliders[1].value) >>

\* what a step sent on slider i's activity channel through
\* activity_check_all_sliders
ActivityOffEmissions(i) ==
  SelectSeq(activity_out,
            LAMBDA m : m[1] = touch_sliders[i].config.activity_channel_cc)

\* C27: a call of activity_check that returns emits activity-off (0) and
\* clears activity_on exactly when the slider has an activity channel,
\* activity_on is true and the time since the last activity is strictly
\* greater than the timeout, BOTH_PRESSED_TIMEOUT if both_pressed is true
\* and ACTIVITY_TIMEOUT otherwise; in every other case the slider is left
\* as it was and nothing is emitted on its channel.
C27_ActivityCheck ==
  [][ (ActivityCheckAll /\ ~activity_raised') =>
        \A i \in Sliders :
          LET s == touch_sliders[i]
              t == touch_sliders'[i]
              due == /\ s.enabled
                     /\ s.config.activity_channel_cc # None
                     /\ s.activity_on
                     /\ Tenths(current_time' - s.last_activity_time) >
                          (IF s.both_pressed THEN BOTH_PRESSED_TIMEOUT
                           ELSE ACTIVITY_TIMEOUT)
          IN IF due
             THEN /\ t = [s EXCEPT !.activity_on = FALSE]
                  /\ ActivityOffEmissions(i)' =
                       << << s.config.activity_channel_cc, 0 >> >>
             ELSE /\ t = s
                  /\ ActivityOffEmissions(i)' = << >> ]_vars

\* slider 1 is in a chord and its indicator has just been switched off, 11
\* seconds after its last activity: 1 second more than the longer timeout
C27_Witness ==
  /\ touch_sliders[1].both_pressed
  /\ ~touch_sliders[1].activity_on
  /\ ~activity_raised
  /\ activity_out = << << touch_sliders[1].config.activity_channel_cc, 0 >> >>
  /\ Tenths(current_time - touch_sliders[1].last_activity_time)
       = BOTH_PRESSED_TIMEOUT + Tenths(1)

\* what a step sent on slider i's activity channel through activity_ping
ActivityOnEmissions(i) ==
  SelectSeq(midi_out,
            LAMBDA m : m[1] = touch_sliders[i].config.activity_channel_cc)

\* C28: activity_ping always records the time of the call, and emits
\* activity-on (127) only when activity_on is false; activity_check emits
\* activity-off (0) only when activity_on is true; every emission on an
\* activity channel differs from the one before it on that channel, and
\* activity_on is true exactly when the last emission was activity-on.
C28_Alternation ==
  [][ /\ ActivityPing =>
           \E i \in Sliders :
             /\ touch_sliders[i].enabled
             /\ touch_sliders'[i].last_activity_time = current_time'
             /\ \A j \in Sliders \ {i} : touch_sliders'[j] = touch_sliders[j]
      /\ \A i \in Sliders :
           LET s == touch_sliders[i]
               t == touch_sliders'[i]
               cc == s.config.activity_channel_cc
               on == ActivityOnEmissions(i)'
               off == ActivityOffEmissions(i)'
           IN /\ ActivityPing =>
                   /\ on \in { << >>, << << cc, 127 >> >> }
                   /\ on # << >> =>
                        (~s.activity_on /\ t.activity_on
                           /\ activity_last_sent[i] # 127)
                   /\ on = << >> => t.activity_on = s.activity_on
                   /\ (~s.activity_on /\ t.enabled
                         /\ t.last_activity_time # s.last_activity_time)
                        => on # << >>
              /\ ActivityCheckAll =>
                   /\ off \in { << >>, << << cc, 0 >> >> }
                   /\ off # << >> =>
                        (s.activity_on /\ ~t.activity_on
                           /\ activity_last_sent[i] = 127)
                   /\ off = << >> => t.activity_on = s.activity_on
              /\ t.activity_on <=> activity_last_sent'[i] = 127 ]_vars

\* slider 1's channel has carried on, off and on again: the last check
\* switched the indicator off and the ping after it switched it on
C28_Witness ==
  /\ touch_sliders[1].activity_on
  /\ activity_last_sent[1] = 127
  /\ activity_out = << << touch_sliders[1].config.activity_channel_cc, 0 >> >>
  /\ midi_out = << << touch_sliders[1].config.activity_channel_cc, 127 >> >>
  /\ touch_sliders[1].last_activity_time = current_time
  /\ loop_count >= 3

\* C29: every timestamp recorded within an iteration is the clock value read
\* at the start of that iteration: no slider's last_activity_time is later
\* than the iteration's current_time.
C29_AsStated ==
  \A i \in Sliders : touch_sliders[i].last_activity_time <= current_time

\* C30: an update that sees the AND of the enabled sliders go from true to
\* false clears stable_start_time, one that sees it go from false to true
\* sets stable_start_time to its now, and the toggle is activated only by
\* an update before which every update of the last
\* ALL_BOTH_PRESS_STABLE_TIME has seen the AND true.
C30_StableTimerReset ==
  [][ /\ (ToggleEvaluated /\ all_both_press_manager.all_both_pressed /\ ~ChordNow)
           => /\ ~all_both_press_manager'.all_both_pressed
              /\ all_both_press_manager'.stable_start_time = None
      /\ (ToggleEvaluated /\ ~all_both_press_manager.all_both_pressed /\ ChordNow)
           => /\ all_both_press_manager'.all_both_pressed
              /\ all_both_press_manager'.stable_start_time = current_time'
      /\ Activated
           => /\ chord_seen_since' # None
              /\ current_time' - chord_seen_since' >= ALL_BOTH_PRESS_STABLE_TIME
              /\ all_both_press_manager'.stable_start_time = chord_seen_since' ]_vars

\* the toggle was activated by a chord that was then released and pressed
\* again: the stable timer runs from the update that saw the second press
C30_Witness ==
  /\ all_both_press_manager.toggle_active
  /\ all_both_press_manager.all_both_pressed
  /\ all_both_press_manager.stable_start_time # None
  /\ all_both_press_manager.stable_start_time
       > all_both_press_manager.toggle_start_time
  /\ all_both_press_manager.stable_start_time = chord_seen_since

\* ------------------------------------------------------------------------
\* Claims about the slider's counters, inbound messages and the bounds
\* ------------------------------------------------------------------------
\* C31: after every tick and every inbound message, last_sent_value of an
\* enabled slider (one on which no send has failed) is the integer part of
\* its value; a tick that changes both_pressed and does not move the value
\* emits nothing on the value channel.
C31_EmittedTracksValue ==
  [][ \A i \in Sliders :
        /\ touch_sliders'[i].enabled =>
             touch_sliders'[i].last_sent_value = IntPart(touch_sliders'[i].value)
        /\ (TickOf(i) /\ touch_sliders'[i].enabled
              /\ touch_sliders'[i].both_pressed # touch_sliders[i].both_pressed
              /\ touch_sliders'[i].value = touch_sliders[i].value)
             => ValueEmissions(i)' = << >> ]_vars

\* slider 1, whose value an inbound message had set to 127, has just entered
\* its chord: the tick sent both-press-on and nothing on the value channel
C31_Witness ==
  /\ JustTicked(1)
  /\ touch_sliders[1].enabled
  /\ touch_sliders[1].both_pressed
  /\ BothPinsPressed(1)
  /\ midi_out # << >>
  /\ Head(midi_out) = << touch_sliders[1].config.both_press_cc, 127 >>
  /\ ValueEmissions(1) = << >>
  /\ touch_sliders[1].value = ToFloat(127)
  /\ touch_sliders[1].last_sent_value = 127

\* C32: at most one of hold_count_down and hold_count_up is non-zero, both
\* are non-negative, and a tick moves the value in one direction at most:
\* down only with the down pad alone pressed, up only with the up pad alone.
C32_OneDirection ==
  [][ \A i \in Sliders :
        LET s == touch_sliders[i]
            t == touch_sliders'[i]
        IN /\ t.hold_count_down >= 0
           /\ t.hold_count_up >= 0
           /\ t.hold_count_down = 0 \/ t.hold_count_up = 0
           /\ (TickOf(i) /\ t.value < s.value)
                => (t.down_debouncer.debounced /\ ~t.up_debouncer.debounced
                      /\ t.hold_count_up = 0)
           /\ (TickOf(i) /\ t.value > s.value)
                => (t.up_debouncer.debounced /\ ~t.down_debouncer.debounced
                      /\ t.hold_count_down = 0) ]_vars

\* slider 1's up pad was held for two ticks, the down pad joined it in a
\* chord, and the chord has just been released into the down pad: the up
\* counter the chord had kept is back at 0 and the value went down one step
C32_Witness ==
  /\ JustTicked(1)
  /\ midi_out # << >>
  /\ Head(midi_out) = << touch_sliders[1].config.both_press_cc, 0 >>
  /\ touch_sliders[1].hold_count_down = 1
  /\ touch_sliders[1].hold_count_up = 0
  /\ touch_sliders[1].value
       = ToFloat(touch_sliders[1].config.initial_value)
           + StepSize(touch_sliders[1].config, 1)
           + StepSize(touch_sliders[1].config, 2)
           - StepSize(touch_sliders[1].config, 1)

\* ------------------------------------------------------------------------
\* Claims about the state and the emissions of the gesture toggle
\* ------------------------------------------------------------------------
\* C33: stable_start_time is set exactly when all_both_pressed is true,
\* toggle_start_time is set exactly when toggle_active is true, and while
\* toggle_active is true last_trigger_time equals toggle_start_time.
C33_StatePairing ==
  /\ all_both_press_manager.stable_start_time # None
       <=> all_both_press_manager.all_both_pressed
  /\ all_both_press_manager.toggle_start_time # None
       <=> all_both_press_manager.toggle_active
  /\ all_both_press_manager.toggle_active =>
       all_both_press_manager.last_trigger_time
         = all_both_press_manager.toggle_start_time

\* the toggle has been activated and deactivated again while the chord is
\* still held: the stable timer is set, the toggle timer is not
C33_Witness ==
  /\ ~all_both_press_manager.toggle_active
  /\ all_both_press_manager.toggle_start_time = None
  /\ all_both_press_manager.last_trigger_time > 0
  /\ all_both_press_manager.all_both_pressed
  /\ all_both_press_manager.stable_start_time # None

\* C34 as stated: the values emitted on the toggle channel are 127, 0, 127,
\* 0, ... starting with 127: every value the transport accepts differs from
\* the one it accepted before, and the first one is 127.
C34_AsStated ==
  [][ \A k \in DOMAIN toggle_out' :
        toggle_out'[k].sent =>
          /\ toggle_out'[k].value # toggle_emitted
          /\ toggle_emitted = None => toggle_out'[k].value = 127 ]_vars

\* C34: the values update tries to send on the toggle channel alternate,
\* starting with 127: it tries 127 exactly when it activates the toggle
\* (inactive before, active after) and 0 exactly when it deactivates it
\* (active before, inactive after), one value per call at most; what is
\* emitted is what the transport accepts of these.
C34_AttemptsAlternate ==
  [][ /\ Len(toggle_out') <= 1
      /\ Activated <=> ToggleValuesSent = << 127 >>
      /\ Deactivated <=> ToggleValuesSent = << 0 >>
      /\ toggle_emitted' =
           IF toggle_out' # << >> /\ toggle_out'[1].sent
           THEN toggle_out'[1].value ELSE toggle_emitted ]_vars

\* the toggle has been activated for the second time by a chord held all
\* along (it is activated a cooldown or more after the chord began, which a
\* first activation never is), and the transport has accepted this 127
C34_Witness ==
  /\ all_both_press_manager.toggle_active
  /\ all_both_press_manager.toggle_start_time = current_time
  /\ all_both_press_manager.stable_start_time # None
  /\ current_time - all_both_press_manager.stable_start_time
       >= ALL_BOTH_PRESS_COOLDOWN + ALL_BOTH_PRESS_STABLE_TIME
  /\ toggle_out = ToggleSend(127, TRUE)
  /\ toggle_emitted = 127

\* C35: an update called with the feature disabled, or with no enabled
\* slider in the list, returns False, tries to send nothing and leaves the
\* manager as it was; the toggle is never activated in such a call.
C35_EarlyReturn ==
  [][ ~ToggleEvaluated =>
        /\ all_both_press_manager' = all_both_press_manager
        /\ ~toggle_ret'
        /\ toggle_out' = << >>
        /\ ~Activated ]_vars

\* an update has just been called with every slider disabled, at a time
\* when the chord it had recorded was stable and the cooldown over: the
\* toggle is still inactive
C35_Witness ==
  /\ loop_count >= 2
  /\ all_both_press_manager.enabled
  /\ \A i \in Sliders : ~touch_sliders[i].enabled
  /\ all_both_press_manager.all_both_pressed
  /\ current_time - all_both_press_manager.stable_start_time
       >= ALL_BOTH_PRESS_STABLE_TIME
  /\ ~all_both_press_manager.toggle_active
  /\ all_both_press_manager.last_trigger_time < 0

C37_InboundBothPress ==
  [][ \A i \in Sliders :
        LET s == touch_sliders[i]
            t == touch_sliders'[i]
        IN /\ pc = "midi" =>
                \A v \in ControlValues :
                  ApplyMessage(touch_sliders,
                               [control |-> s.config.both_press_cc,
                                value |-> v])[i].both_pressed = (v >= 64)
           /\ (TickOf(i) /\ t.enabled /\ s.config.both_press_cc # None)
                => /\ t.both_pressed <=> BothPinsPressed(i)'
                   /\ (s.both_pressed /\ ~BothPinsPressed(i)')
                        => (midi_out' # << >>
                              /\ Head(midi_out') = << s.config.both_press_cc, 0 >>) ]_vars

\* in the first iteration, in which no pad can be stably pressed yet, an
\* inbound message had set slider 1's both_pressed while a pad was touched;
\* its tick has cleared it and emitted both-press-off first
C37_Witness ==
  /\ loop_count = 1
  /\ JustTicked(1)
  /\ touch_sliders[1].enabled
  /\ ~touch_sliders[1].both_pressed
  /\ ~BothPinsPressed(1)
  /\ touch_sliders[1].cached_touched_pins # {}
  /\ midi_out # << >>
  /\ Head(midi_out) = << touch_sliders[1].config.both_press_cc, 0 >>

\* C38: a control change received on a slider's value channel sets value
\* and last_sent_value of that slider to the received value and changes
\* nothing else of it, nor any other slider; receiving messages emits
\* nothing and leaves every slider's counters, enabled flag, cache,
\* debouncers and activity state alone; a tick with no direction held emits
\* nothing on the value channel.
C38_InboundValue ==
  [][ /\ pc = "midi" =>
           \A i \in Sliders, v \in ControlValues :
             ApplyMessage(touch_sliders,
                          [control |-> touch_sliders[i].config.cc_number,
                           value |-> v])
               = [touch_sliders EXCEPT ![i].value = ToFloat(v),
                                       ![i].last_sent_value = v]
      /\ pc = "midi" =>
           /\ midi_out' = << >>
           /\ \A i \in Sliders :
                [touch_sliders'[i] EXCEPT
                   !.value = touch_sliders[i].value,
                   !.last_sent_value = touch_sliders[i].last_sent_value,
                   !.both_pressed = touch_sliders[i].both_pressed]
                  = touch_sliders[i]
      /\ \A i \in Sliders :
           (TickOf(i) /\ touch_sliders'[i].enabled
              /\ ~touch_sliders'[i].down_debouncer.debounced
              /\ ~touch_sliders'[i].up_debouncer.debounced)
             => ValueEmissions(i)' = << >> ]_vars

\* an inbound message has set slider 1's value to 127 and the tick after
\* it, with no pad pressed, has emitted nothing
C38_Witness ==
  /\ JustTicked(1)
  /\ touch_sliders[1].enabled
  /\ touch_sliders[1].value = ToFloat(127)
  /\ touch_sliders[1].last_sent_value = 127
  /\ ~touch_sliders[1].down_debouncer.debounced
  /\ ~touch_sliders[1].up_debouncer.debounced
  /\ touch_sliders[1].hold_count_up = 0
  /\ ~touch_sliders[1].activity_on
  /\ midi_out = << >>
  /\ led.first_midi_received

\* C39: a tick of an enabled slider that completes with the value at 0 and
\* the down pad alone pressed (and with the value at 127 and the up pad alone
\* pressed) leaves the value at the bound and emits nothing on the value
\* channel, and yet adds 1 to the hold counter of the direction, records the
\* time of the tick as the last activity, leaves the activity channel on
\* where there is one, and returns True.
C39_HoldAtBound ==
  [][ \A i \in Sliders :
        LET s == touch_sliders[i]
            t == touch_sliders'[i]
            pinged == /\ \E reread \in ClockRereads :
                           t.last_activity_time = current_time + reread
                      /\ t.config.activity_channel_cc # None => t.activity_on
        IN /\ (TickOf(i) /\ s.enabled /\ t.enabled /\ s.value = 0
                 /\ t.down_debouncer.debounced /\ ~t.up_debouncer.debounced)
                => /\ t.value = 0
                   /\ ValueEmissions(i)' = << >>
                   /\ t.hold_count_down = s.hold_count_down + 1
                   /\ pinged
                   /\ update_ret'
           /\ (TickOf(i) /\ s.enabled /\ t.enabled /\ s.value = ToFloat(127)
                 /\ t.up_debouncer.debounced /\ ~t.down_debouncer.debounced)
                => /\ t.value = ToFloat(127)
                   /\ ValueEmissions(i)' = << >>
                   /\ t.hold_count_up = s.hold_count_up + 1
                   /\ pinged
                   /\ update_ret' ]_vars

\* slider 1, whose value an inbound message had set to 0, has been held down
\* for a second tick: the value is still 0, the tick sent nothing and
\* returned True
C39_Witness ==
  /\ JustTicked(1)
  /\ touch_sliders[1].enabled
  /\ touch_sliders[1].value = 0
  /\ touch_sliders[1].last_sent_value = 0
  /\ touch_sliders[1].down_debouncer.debounced
  /\ ~touch_sliders[1].up_debouncer.debounced
  /\ touch_sliders[1].hold_count_down = 2
  /\ touch_sliders[1].activity_on
  /\ midi_out = << >>
  /\ update_ret

\* ------------------------------------------------------------------------
\* The LED calibration trigger as a whole (checked under SpecLedFair)
\* ------------------------------------------------------------------------
\* the trigger is armed and its delayed action not yet acknowledged
LedPending == led.first_midi_received /\ ~led.led_calibration_completed

\* the loop ended before the delay of the armed trigger had passed
LedLoopEndedEarly ==
  /\ loop_count = MaxLedTicks
  /\ pc = "clock"
  /\ led.first_midi_received
  /\ current_time < led.first_midi_time + LED_CALIBRATION_DELAY

\* C40: once an inbound message has armed the trigger at t0, the loop runs
\* the calibration in the first iteration whose clock value is at least
\* t0 + delay and marks the trigger completed in that iteration; no earlier
\* iteration and no other step of the loop runs or completes it; and as long
\* as the loop goes on, an armed trigger is eventually completed.
C40_OneShot ==
  /\ [][ (pc = "led" /\ LedPending) =>
           IF current_time - led.first_midi_time >= LED_CALIBRATION_DELAY
           THEN /\ led_calibrations' = led_calibrations + 1
                /\ led'.led_calibration_triggered
                /\ led'.led_calibration_completed
           ELSE /\ led_calibrations' = led_calibrations
                /\ ~led'.led_calibration_triggered
                /\ ~led'.led_calibration_completed ]_vars
  /\ [][ pc # "led" =>
           /\ led_calibrations' = led_calibrations
           /\ led'.led_calibration_completed = led.led_calibration_completed ]_vars
  /\ [](LedPending =>
          \/ pc \in {"midi", "led"}
          \/ current_time < led.first_midi_time + LED_CALIBRATION_DELAY)
  /\ LedPending ~> (led.led_calibration_completed \/ LedLoopEndedEarly)

\* the trigger was armed in the first iteration, the second came 19 s later
\* and did nothing, and the third has run the calibration and completed the
\* trigger
C40_Witness ==
  /\ loop_count = 3
  /\ pc = "cache"
  /\ led.first_midi_received
  /\ current_time - led.first_midi_time > LED_CALIBRATION_DELAY
  /\ current_time - led.first_midi_time
       < LED_CALIBRATION_DELAY + LED_CALIBRATION_DELAY - 1
  /\ led.led_calibration_triggered
  /\ led.led_calibration_completed
  /\ led_calibrations = 1
====
